---- MODULE Spec2Model ----
(***************************************************************************)
(* A model of the journal's synchronisation engine: the remote file store  *)
(* reached through driveFetch, the upload pipeline syncEntryToDrive, the   *)
(* download pass fetchAllEntriesFromDrive, and the orchestrator in App.tsx *)
(* (handleCloudSync, performSave, confirmManualSave, confirmDelete).       *)
(*                                                                         *)
(* Strings of the program are sequences of one-character strings, so that  *)
(* sanitising, trimming, concatenation and the id-shape heuristic are      *)
(* computed and not assumed.  JavaScript's null / undefined / ""  is the   *)
(* empty sequence wherever the code tests the value for truthiness.        *)
(***************************************************************************)
EXTENDS Integers, Sequences, FiniteSets, TLC

VARIABLES
    files,      \* the remote store: the set of file resources of the drive
    nextId,     \* number of the next file id the remote store hands out
    up,         \* the running syncEntryToDrive call (its locals and position)
    last,       \* summary of the syncEntryToDrive call that returned last
    fetched,    \* what the last fetchAllEntriesFromDrive call returned
    syncs,      \* number of syncEntryToDrive calls made so far
    dl,         \* the running fetchAllEntriesFromDrive call (its locals and position)
    other,      \* a second syncEntryToDrive call, waiting at one of its awaits
    serverNow,  \* the remote store's clock, which stamps modifiedTime
    \* ---- the orchestrator (App.tsx) ----
    entries,        \* useState entries: the list the UI shows
    store,          \* the local entry store (getAllEntries / saveEntry / deleteEntry)
    activeEntry,    \* useState activeEntry (NoEntry for null)
    accessToken,    \* useState accessToken (Null for null)
    isLoggedIn,     \* useState isLoggedIn
    isSyncing,      \* useState isSyncing
    isSavingRef,    \* useRef isSavingRef
    pendingSaveRef, \* useRef pendingSaveRef (NoEntry for null)
    lastSavedHash,  \* useRef lastSavedHash
    saveTimeout,    \* the armed autosave timer: its entry and the token of its closure
    entryToDelete,  \* useState entryToDelete (Null for null)
    loading,        \* loadLocalEntries is awaiting getAllEntries
    syncTimers,     \* armed setTimeout(handleCloudSync, 500) closures of the login effect
    passes,         \* handleCloudSync calls awaiting fetchAllEntriesFromDrive
    save,           \* the performSave call that holds isSavingRef
    manual,         \* the confirmManualSave call in flight
    del,            \* the confirmDelete call in flight
    now,            \* Date.now()
    logins,         \* number of tokens the auth callback has delivered
    cloudEntries,   \* history: what the pass that ended last was answered with
    passCount,      \* number of handleCloudSync calls that reached the fetch
    thrown          \* history: the error that ended the last pass or upload run

\* What a step of the upload call in up leaves alone on the remote side.
restVars == <<dl, other, serverNow>>

remoteVars == <<files, nextId, up, last, fetched, syncs, restVars>>

appVars == <<entries, store, activeEntry, accessToken, isLoggedIn, isSyncing,
             isSavingRef, pendingSaveRef, lastSavedHash, saveTimeout, entryToDelete,
             loading, syncTimers, passes, save, manual, del, now, logins, cloudEntries,
             passCount, thrown>>

vars == <<remoteVars, appVars>>

(***************************************************************************)
(* Strings                                                                 *)
(***************************************************************************)
Null == <<>>

Digits == {"0", "1", "2", "3", "4", "5", "6", "7", "8", "9"}

DigitChar(n) == <<"0", "1", "2", "3", "4", "5", "6", "7", "8", "9">>[n + 1]

WhiteSpace == {" ", "\n", "\t"}

\* The characters the file-name regex /[/\\?%*:|"<>\x00-\x1F]/g replaces.
IllegalChars == {"/", "\\", "?", "%", "*", ":", "|", "\"", "<", ">", "\n", "\t"}

RECURSIVE TrimStart(_)
TrimStart(s) ==
    IF s # <<>> /\ Head(s) \in WhiteSpace THEN TrimStart(Tail(s)) ELSE s

RECURSIVE TrimEnd(_)
TrimEnd(s) ==
    IF s # <<>> /\ s[Len(s)] \in WhiteSpace
    THEN TrimEnd(SubSeq(s, 1, Len(s) - 1))
    ELSE s

\* String.prototype.trim
Trim(s) == TrimEnd(TrimStart(s))

\* title.replace(/[/\\?%*:|"<>\x00-\x1F]/g, '_')
ReplaceIllegal(s) == [i \in 1..Len(s) |-> IF s[i] \in IllegalChars THEN "_" ELSE s[i]]

StrUntitled == <<"U", "n", "t", "i", "t", "l", "e", "d">>
StrDotTxt == <<".", "t", "x", "t">>
StrNotesTxt == <<"n", "o", "t", "e", "s", ".", "t", "x", "t">>
StrEntryDash == <<"e", "n", "t", "r", "y", "-">>
StrImages == <<"i", "m", "a", "g", "e", "s">>
StrImageDash == <<"i", "m", "a", "g", "e", "-">>
StrTitleHdr == <<"T", "i", "t", "l", "e", ":", " ">>
StrDateHdr == <<"D", "a", "t", "e", ":", " ">>
StrMoodHdr == <<"M", "o", "o", "d", ":", " ">>
StrAttachHdr == <<"a", "t", "t", "a", "c", "h", "m", "e", "n", "t", "s", ":", " ">>
StrSeparator == <<"\n", "\n", "-", "-", "-", "\n">>

\* APP_FOLDER_NAME of constants.ts, the root folder's name ("ZenJournal").
APP_FOLDER_NAME == <<"Z", "e", "n", "J", "o", "u", "r", "n", "a", "l">>

\* const safeTitle = title.replace(...).trim() || 'Untitled'
SafeTitle(title) ==
    LET t == Trim(ReplaceIllegal(title)) IN IF t = <<>> THEN StrUntitled ELSE t

\* const desiredFileName = `${safeTitle}.txt`
DesiredFileName(title) == SafeTitle(title) \o StrDotTxt

\* `entry-${entry.id}.txt`
OldName(id) == StrEntryDash \o id \o StrDotTxt

\* isNaN(Number(id)) on the ids of the model: a string of decimal digits (and
\* the empty string, which Number turns into 0) is a number, a string holding
\* a letter is not.
IsNaNNumber(id) == \E i \in 1..Len(id) : id[i] \notin Digits

\* const isDriveId = entry.id.length > 15 && isNaN(Number(entry.id))
IsDriveId(id) == Len(id) > 15 /\ IsNaNNumber(id)

(***************************************************************************)
(* Ids and timestamps                                                      *)
(***************************************************************************)
\* The id the remote store gives its n-th file: long and alphanumeric.
DriveId(n) ==
    <<"1", "a", "B", "c", "D", "e", "F", "g", "H", "i", "J", "k", "L", "m",
      "N", "o", "P", "q">> \o <<DigitChar(n \div 10), DigitChar(n % 10)>>

\* Date.now().toString(): thirteen digits.
LocalId(n) ==
    <<"1", "7", "0", "4", "0", "6", "7", "2", "0", "0", "0", "0">> \o <<DigitChar(n)>>

\* Timestamps: the code's are milliseconds since 1970; the model counts ticks
\* of 1/TicksPerDay of a day since 2024-01-01T00:00Z, which keeps the order of
\* timestamps and the calendar day of each.
TicksPerDay == 2

DayIndex(t) == t \div TicksPerDay

\* date.toISOString().split('T')[0], for the first nine days of January 2024.
DateFolderName(createdAt) ==
    <<"2", "0", "2", "4", "-", "0", "1", "-", "0">>
        \o <<DigitChar(DayIndex(createdAt) + 1)>>

\* date.toLocaleString(), shown to humans only (en-US, UTC).
LocaleString(createdAt) ==
    <<"1", "/", DigitChar(DayIndex(createdAt) + 1), "/", "2", "0", "2", "4">>

(***************************************************************************)
(* The remote store.  A file resource is a record                          *)
(*   id, name, parent (one parent: the code creates every file with one    *)
(*   parent and never moves it), mimeType (<<type, subtype>>), entryId     *)
(*   (appProperties.entryId, Null when absent), text (media of a text      *)
(*   file), bytes (media of an attachment), modifiedTime (stamped by the    *)
(*   store on every write of a text file; the code reads no other file's). *)
(* DELETE removes the resource.  A listing's order is the provider's, so   *)
(* files[0] of an answer is any of the matches.                            *)
(***************************************************************************)
FolderMime == <<"application", "vnd.google-apps.folder">>
TextMime == <<"text", "plain">>

NewFile(id, name, parent, mimeType, entryId) ==
    [id |-> id, name |-> name, parent |-> parent, mimeType |-> mimeType,
     entryId |-> entryId, text |-> <<>>, bytes |-> <<>>, modifiedTime |-> 0]

\* The three mimeTypeQuery strings the code passes to findByName.
IsFolderQ == [op |-> "=", mimeType |-> FolderMime]
IsTextQ == [op |-> "=", mimeType |-> TextMime]
NotFolderQ == [op |-> "!=", mimeType |-> FolderMime]

MatchesMime(f, q) ==
    IF q.op = "=" THEN f.mimeType = q.mimeType ELSE f.mimeType # q.mimeType

\* data.files && data.files.length > 0 ? data.files[0].id : null
FirstId(matches) == IF matches = {} THEN {Null} ELSE {f.id : f \in matches}

\* findByName: the values it may return against store fs.
findByName(fs, name, parentId, q) ==
    FirstId({f \in fs : /\ f.name = name
                        /\ MatchesMime(f, q)
                        /\ (parentId # Null => f.parent = parentId)})

\* driveFetch: what the wrapper does with a response of the given status.
driveFetch(status) ==
    IF status \in 200..299 THEN "ok"
    ELSE IF status = 401 \/ status = 403 THEN "auth"
    ELSE "error"

ById(fs, id) == CHOOSE f \in fs : f.id = id

Replace(fs, id, g) == {IF f.id = id THEN g ELSE f : f \in fs}

(***************************************************************************)
(* Entries                                                                 *)
(***************************************************************************)
PngMime == <<"image", "png">>

\* A data URL "data:<mime>;base64,<payload>", split at its comma.
DataUrl(payload) == <<"data:image/png;base64", payload>>

\* atob(image.data.split(',')[1]) and the Uint8Array / Blob built from it.
Atob(data) == <<"bytes", data[2]>>

Image(id, payload) == [id |-> id, data |-> DataUrl(payload), mimeType |-> PngMime]

\* const ext = image.mimeType.split('/')[1] || 'png'
ImageExt(mimeType) ==
    IF Len(mimeType) >= 2 /\ mimeType[2] # "" THEN mimeType[2] ELSE "png"

\* const filename = `image-${image.id}.${ext}`
ImageFileName(image) == StrImageDash \o image.id \o <<".", ImageExt(image.mimeType)>>

RECURSIVE JoinIds(_)
\* entry.images.map(i => i.id).join(',')
JoinIds(images) ==
    IF images = <<>> THEN <<>>
    ELSE IF Len(images) = 1 THEN images[1].id
    ELSE images[1].id \o <<",">> \o JoinIds(Tail(images))

\* const fileContent = `Title: ${title}\nDate: ${...}\n${moodStr}\n${content}${imageMeta}`
FileContent(entry) ==
    LET moodStr == IF entry.mood # Null THEN StrMoodHdr \o entry.mood \o <<"\n">> ELSE <<>>
        imageMeta == IF Len(entry.images) > 0
                     THEN StrSeparator \o StrAttachHdr \o JoinIds(entry.images)
                     ELSE <<>>
    IN  StrTitleHdr \o entry.title \o <<"\n">>
          \o StrDateHdr \o LocaleString(entry.createdAt) \o <<"\n">>
          \o moodStr \o <<"\n">> \o entry.content \o imageMeta

\* JournalEntry, with the driveFileName confirmManualSave adds to it.
NoEntry ==
    [id |-> Null, title |-> <<>>, content |-> <<>>, mood |-> Null,
     createdAt |-> 0, updatedAt |-> 0, images |-> <<>>, driveFileName |-> Null]

(***************************************************************************)
(* Inputs of the remote specification                                      *)
(***************************************************************************)
\* The number of syncEntryToDrive calls a behaviour of the model makes.
MaxSyncs == 2

\* The calendar days (counted from 2024-01-01) entries are created on.
Days == {0, 1}

StrHi == <<"h", "i">>

IdLocal == LocalId(1)
\* An entry imported from the remote file 3 carries that file's id.
IdImported == DriveId(3)

\* The entries handed to syncEntryToDrive: a local entry of the first day
\* whose title and image vary, and an imported, untitled one (with an image)
\* whose day varies.
EntryTitles == {<<>>, <<"a", "/">>}

UploadEntries ==
    {[NoEntry EXCEPT !.id = IdLocal, !.title = t, !.content = StrHi, !.images = im] :
        t \in EntryTitles, im \in {<<>>, <<Image(<<"7">>, "QUJD")>>}}
    \cup
    {[NoEntry EXCEPT !.id = IdImported, !.content = StrHi,
                     !.createdAt = d * TicksPerDay, !.updatedAt = d * TicksPerDay,
                     !.images = <<Image(<<"8">>, "REVG")>>] : d \in Days}

\* HTTP statuses a remote call is answered with.
Statuses == {200, 401, 403, 500}

\* The remote store before the first call: wiped, or holding what an older
\* version left: the root, the folder of day one and an untagged notes.txt,
\* or the root and, directly under it, an untagged entry-{id}.txt.
LegacyStore ==
    {NewFile(DriveId(1), APP_FOLDER_NAME, Null, FolderMime, Null),
     NewFile(DriveId(2), DateFolderName(0), DriveId(1), FolderMime, Null),
     [NewFile(DriveId(3), StrNotesTxt, DriveId(2), TextMime, Null)
        EXCEPT !.text = StrHi]}

RootLegacyStore ==
    {NewFile(DriveId(1), APP_FOLDER_NAME, Null, FolderMime, Null),
     [NewFile(DriveId(2), OldName(IdLocal), DriveId(1), TextMime, Null)
        EXCEPT !.text = StrHi]}

\* No fetchAllEntriesFromDrive call is running.
IdleDl == [pc |-> "idle"]

(***************************************************************************)
(* syncEntryToDrive, one action per awaited remote call                    *)
(***************************************************************************)
NoFetch == [result |-> "none", entries |-> {}]

IdleUp ==
    [pc |-> "idle", entry |-> NoEntry, rootId |-> Null, dateFolderId |-> Null,
     fileId |-> Null, currentFileName |-> Null, newFileId |-> Null,
     imagesFolderId |-> Null, i |-> 0, imgFileId |-> Null, result |-> "none",
     \* history of the call, not read by the code:
     created |-> {}, written |-> Null, failed |-> FALSE, authSeen |-> FALSE,
     callsAfterAuth |-> FALSE,
     recordsAtStart |-> 0, imagesAtStart |-> 0]

\* The files that a download pass turns into the entry with this id.
RecordsOf(fs, id) ==
    {f \in fs : /\ f.mimeType = TextMime
                /\ (f.entryId = id \/ (f.entryId = Null /\ f.id = id))}

AttachmentsOf(fs, image) ==
    {f \in fs : f.name = ImageFileName(image) /\ f.mimeType # FolderMime}

\* A remote call is issued by call u.
Issue(u) == [u EXCEPT !.callsAfterAuth = @ \/ u.authSeen]

\* A catch block that rethrows whatever it caught.
SyncCatchRethrows(kind) == "throw"

\* The catch block of syncEntryToDrive: rethrow the auth error, swallow the rest.
SyncCatch(kind) == IF kind = "auth" THEN "throw" ELSE "undefined"

\* A driveFetch inside the try block threw on a response of this status.
Throw(u, status) ==
    [Issue(u) EXCEPT !.pc = "done",
                     !.result = SyncCatch(driveFetch(status)),
                     !.failed = TRUE,
                     !.authSeen = @ \/ driveFetch(status) = "auth"]

\* What follows the file operations: step 7, the images, or return true.
AfterFile(u) ==
    IF Len(u.entry.images) > 0
    THEN [u EXCEPT !.pc = "findImages"]
    ELSE [u EXCEPT !.pc = "done", !.result = "true"]

\* The next image of the for loop, or return true.
NextImage(u) ==
    IF u.i < Len(u.entry.images)
    THEN [u EXCEPT !.pc = "imageFind", !.i = u.i + 1, !.imgFileId = Null]
    ELSE [u EXCEPT !.pc = "done", !.result = "true"]

\* syncEntryToDrive(entry, accessToken) is called against store fs.
StartedUp(e, fs) ==
    [IdleUp EXCEPT !.pc = "findRoot", !.entry = e,
       !.recordsAtStart = Cardinality(RecordsOf(fs, e.id)),
       !.imagesAtStart =
           Cardinality(UNION {AttachmentsOf(fs, e.images[k]) : k \in 1..Len(e.images)})]

StartSync ==
    /\ up.pc = "idle"
    /\ syncs < MaxSyncs
    /\ syncs' = syncs + 1
    /\ \E e \in UploadEntries : up' = StartedUp(e, files)
    /\ fetched' = NoFetch
    /\ UNCHANGED <<files, nextId, last, restVars, appVars>>

\* getAppFolderId: findByName(APP_FOLDER_NAME, null, folder)
GetAppFolderFind ==
    /\ up.pc = "findRoot"
    /\ \E status \in Statuses :
         IF driveFetch(status) = "ok"
         THEN \E r \in findByName(files, APP_FOLDER_NAME, Null, IsFolderQ) :
                up' = [Issue(up) EXCEPT !.rootId = r,
                         !.pc = IF r = Null THEN "createRoot" ELSE "findDate"]
         ELSE up' = Throw(up, status)
    /\ UNCHANGED <<files, nextId, last, fetched, syncs, restVars, appVars>>

ToFindDate(u) == [u EXCEPT !.pc = "findDate"]

ToStrategyA(u) == [u EXCEPT !.pc = "strategyA"]

ToPatch(u) == [u EXCEPT !.pc = "patchMeta"]

\* Where the call goes on after an awaited helper has returned.
Continue(next, u) ==
    CASE next = "findDate" -> ToFindDate(u)
      [] next = "strategyA" -> ToStrategyA(u)
      [] next = "patchMeta" -> ToPatch(u)
      [] next = "afterFile" -> AfterFile(u)
      [] next = "nextImage" -> NextImage(u)

\* createFolder as issued at position pc: on 2xx the folder exists and its id is
\* returned into the local the caller assigns (rootId / dateFolderId / imagesFolderId).
CreateFolderAt(pc, name, parentId, local, next) ==
    /\ up.pc = pc
    /\ \E status \in Statuses :
         IF driveFetch(status) = "ok"
         THEN /\ files' = files \cup {NewFile(DriveId(nextId), name, parentId, FolderMime, Null)}
              /\ nextId' = nextId + 1
              /\ up' = Continue(next, [Issue(up) EXCEPT ![local] = DriveId(nextId),
                                          !.created = @ \cup {DriveId(nextId)}])
         ELSE /\ up' = Throw(up, status)
              /\ UNCHANGED <<files, nextId>>
    /\ UNCHANGED <<last, fetched, syncs, restVars, appVars>>

GetAppFolderCreate ==
    CreateFolderAt("createRoot", APP_FOLDER_NAME, Null, "rootId", "findDate")

FindDateFolder ==
    /\ up.pc = "findDate"
    /\ \E status \in Statuses :
         IF driveFetch(status) = "ok"
         THEN \E r \in findByName(files, DateFolderName(up.entry.createdAt), up.rootId, IsFolderQ) :
                up' = [Issue(up) EXCEPT !.dateFolderId = r,
                         !.pc = IF r = Null THEN "createDate" ELSE "strategyA"]
         ELSE up' = Throw(up, status)
    /\ UNCHANGED <<files, nextId, last, fetched, syncs, restVars, appVars>>

CreateDateFolder ==
    CreateFolderAt("createDate", DateFolderName(up.entry.createdAt), up.rootId,
                   "dateFolderId", "strategyA")

\* A lookup by custom property that never answers with a file.
StrategyANoMatch(fs, id, dateFolderId) == {}

\* STRATEGY A: the files the query by custom property answers with:
\* appProperties has entryId = entry.id, in the day folder (any mime type).
StrategyAMatches(fs, id, dateFolderId) ==
    {f \in fs : f.entryId = id /\ f.parent = dateFolderId}

StrategyA ==
    /\ up.pc = "strategyA"
    /\ \E status \in Statuses :
         IF driveFetch(status) = "ok"
         THEN LET m == StrategyAMatches(files, up.entry.id, up.dateFolderId) IN
              IF m # {}
              THEN \E f \in m :
                     up' = [Issue(up) EXCEPT !.fileId = f.id, !.currentFileName = f.name,
                              !.pc = "updateContent"]
              ELSE up' = [Issue(up) EXCEPT !.pc =
                            IF IsDriveId(up.entry.id) THEN "strategyB" ELSE "strategyCName"]
         ELSE up' = Throw(up, status)
    /\ UNCHANGED <<files, nextId, last, fetched, syncs, restVars, appVars>>

\* STRATEGY B: GET files/{entry.id} inside try { } catch (e) { }: every throw of
\* driveFetch is caught here and ignored, the 404 of a missing file and the
\* 401/403 alike.
StrategyB ==
    /\ up.pc = "strategyB"
    /\ \E status \in Statuses :
         LET exists == \E f \in files : f.id = up.entry.id
             answer == IF driveFetch(status) = "ok" /\ ~exists THEN 404 ELSE status
         IN  IF driveFetch(answer) = "ok"
             THEN up' = [Issue(up) EXCEPT !.fileId = up.entry.id,
                           !.currentFileName = ById(files, up.entry.id).name,
                           !.pc = "updateContent"]
             ELSE up' = [Issue(up) EXCEPT !.pc = "strategyCName",
                           !.failed = @ \/ driveFetch(status) # "ok",
                           !.authSeen = @ \/ driveFetch(answer) = "auth"]
    /\ UNCHANGED <<files, nextId, last, fetched, syncs, restVars, appVars>>

\* STRATEGY C, one findByName in the day folder: found -> update, else go on.
StrategyCAt(pc, name, nextPc) ==
    /\ up.pc = pc
    /\ \E status \in Statuses :
         IF driveFetch(status) = "ok"
         THEN \E r \in findByName(files, name, up.dateFolderId, IsTextQ) :
                up' = IF r # Null
                      THEN [Issue(up) EXCEPT !.fileId = r, !.currentFileName = name,
                              !.pc = "updateContent"]
                      ELSE [Issue(up) EXCEPT !.pc = nextPc]
         ELSE up' = Throw(up, status)
    /\ UNCHANGED <<files, nextId, last, fetched, syncs, restVars, appVars>>

StrategyCName ==
    StrategyCAt("strategyCName", DesiredFileName(up.entry.title), "strategyCNotes")

StrategyCNotes == StrategyCAt("strategyCNotes", StrNotesTxt, "strategyCOld")

StrategyCOldName == StrategyCAt("strategyCOld", OldName(up.entry.id), "createMeta")

\* PATCH upload/files/{id}?uploadType=media with the serialized entry.
UploadContentAt(pc, local, next) ==
    /\ up.pc = pc
    /\ \E status \in Statuses :
         LET exists == \E f \in files : f.id = up[local]
             answer == IF driveFetch(status) = "ok" /\ ~exists THEN 404 ELSE status
         IN  IF driveFetch(answer) = "ok"
             THEN /\ files' = Replace(files, up[local],
                                [ById(files, up[local]) EXCEPT
                                    !.text = FileContent(up.entry),
                                    !.modifiedTime = serverNow])
                  /\ up' = Continue(next, [Issue(up) EXCEPT !.written = up[local]])
             ELSE /\ up' = Throw(up, answer)
                  /\ UNCHANGED files
    /\ UNCHANGED <<nextId, last, fetched, syncs, restVars, appVars>>

\* An update branch that issues the metadata PATCH without the content upload
\* before it.
PatchBeforeContent ==
    /\ up.pc = "updateContent"
    /\ up' = ToPatch(Issue(up))
    /\ UNCHANGED <<files, nextId, last, fetched, syncs, restVars, appVars>>

UpdateContent == UploadContentAt("updateContent", "fileId", "patchMeta")

\* The body of the metadata PATCH: the name when it differs, and the property.
MetadataPatch(currentFileName, desiredFileName, id) ==
    IF currentFileName # desiredFileName
    THEN [name |-> desiredFileName, entryId |-> id]
    ELSE [name |-> Null, entryId |-> id]

\* PATCH files/{id}: the fields of the body replace the file's.
ApplyPatch(f, patch) ==
    [f EXCEPT !.name = IF patch.name # Null THEN patch.name ELSE @,
              !.entryId = patch.entryId,
              !.modifiedTime = serverNow]

PatchMetadata ==
    /\ up.pc = "patchMeta"
    /\ \E status \in Statuses :
         LET exists == \E f \in files : f.id = up.fileId
             answer == IF driveFetch(status) = "ok" /\ ~exists THEN 404 ELSE status
         IN  IF driveFetch(answer) = "ok"
             THEN /\ files' = Replace(files, up.fileId,
                                ApplyPatch(ById(files, up.fileId),
                                           MetadataPatch(up.currentFileName,
                                                         DesiredFileName(up.entry.title),
                                                         up.entry.id)))
                  /\ up' = AfterFile(Issue(up))
             ELSE /\ up' = Throw(up, answer)
                  /\ UNCHANGED files
    /\ UNCHANGED <<nextId, last, fetched, syncs, restVars, appVars>>

\* CREATE new file: POST files with name, parent, mime type and the property.
CreateMetadata ==
    /\ up.pc = "createMeta"
    /\ \E status \in Statuses :
         IF driveFetch(status) = "ok"
         THEN /\ files' = files \cup
                    {[NewFile(DriveId(nextId), DesiredFileName(up.entry.title),
                              up.dateFolderId, TextMime, up.entry.id)
                        EXCEPT !.modifiedTime = serverNow]}
              /\ nextId' = nextId + 1
              /\ up' = [Issue(up) EXCEPT !.newFileId = DriveId(nextId),
                          !.created = @ \cup {DriveId(nextId)}, !.pc = "createContent"]
         ELSE /\ up' = Throw(up, status)
              /\ UNCHANGED <<files, nextId>>
    /\ UNCHANGED <<last, fetched, syncs, restVars, appVars>>

UploadNewContent == UploadContentAt("createContent", "newFileId", "afterFile")

\* 7. Save Images: findByName('images', dateFolderId, folder)
FindImagesFolder ==
    /\ up.pc = "findImages"
    /\ \E status \in Statuses :
         IF driveFetch(status) = "ok"
         THEN \E r \in findByName(files, StrImages, up.dateFolderId, IsFolderQ) :
                up' = IF r = Null
                      THEN [Issue(up) EXCEPT !.pc = "createImages"]
                      ELSE NextImage([Issue(up) EXCEPT !.imagesFolderId = r])
         ELSE up' = Throw(up, status)
    /\ UNCHANGED <<files, nextId, last, fetched, syncs, restVars, appVars>>

CreateImagesFolder ==
    CreateFolderAt("createImages", StrImages, up.dateFolderId, "imagesFolderId", "nextImage")

\* saveImageFile without its check: every image is uploaded again.
ImageNeverExists(existingId) == FALSE

\* saveImageFile: "Check if already exists", skip if so.
ImageExists(existingId) == existingId # Null

ImageFind ==
    /\ up.pc = "imageFind"
    /\ \E status \in Statuses :
         IF driveFetch(status) = "ok"
         THEN \E r \in findByName(files, ImageFileName(up.entry.images[up.i]),
                                  up.imagesFolderId, NotFolderQ) :
                up' = IF ImageExists(r)
                      THEN NextImage(Issue(up))
                      ELSE [Issue(up) EXCEPT !.pc = "imageMeta"]
         ELSE up' = Throw(up, status)
    /\ UNCHANGED <<files, nextId, last, fetched, syncs, restVars, appVars>>

\* saveImageFile 1: POST files with the entryId property.
ImageCreateMetadata ==
    /\ up.pc = "imageMeta"
    /\ \E status \in Statuses :
         IF driveFetch(status) = "ok"
         THEN /\ files' = files \cup
                    {NewFile(DriveId(nextId), ImageFileName(up.entry.images[up.i]),
                             up.imagesFolderId, up.entry.images[up.i].mimeType,
                             up.entry.id)}
              /\ nextId' = nextId + 1
              /\ up' = [Issue(up) EXCEPT !.imgFileId = DriveId(nextId),
                          !.created = @ \cup {DriveId(nextId)}, !.pc = "imageContent"]
         ELSE /\ up' = Throw(up, status)
              /\ UNCHANGED <<files, nextId>>
    /\ UNCHANGED <<last, fetched, syncs, restVars, appVars>>

\* saveImageFile 2: a bare fetch, whose response is not looked at: whatever the
\* status, the loop goes on.
ImageUploadContent ==
    /\ up.pc = "imageContent"
    /\ \E status \in Statuses :
         /\ files' = IF driveFetch(status) = "ok"
                     THEN Replace(files, up.imgFileId,
                            [ById(files, up.imgFileId) EXCEPT
                               !.bytes = Atob(up.entry.images[up.i].data)])
                     ELSE files
         /\ up' = NextImage([Issue(up) EXCEPT
                               !.failed = @ \/ driveFetch(status) # "ok",
                               !.authSeen = @ \/ driveFetch(status) = "auth"])
    /\ UNCHANGED <<nextId, last, fetched, syncs, restVars, appVars>>

\* The call returns (true or undefined) or throws; its summary is kept.
SyncReturn ==
    /\ up.pc = "done"
    /\ last' = [entry |-> up.entry, result |-> up.result, written |-> up.written,
                failed |-> up.failed, recordsAtStart |-> up.recordsAtStart,
                imagesAtStart |-> up.imagesAtStart]
    /\ up' = IdleUp
    /\ UNCHANGED <<files, nextId, fetched, syncs, restVars, appVars>>

NoLast ==
    [entry |-> NoEntry, result |-> "none", written |-> Null, failed |-> FALSE,
     recordsAtStart |-> 0, imagesAtStart |-> 0]

(***************************************************************************)
(* fetchAllEntriesFromDrive: the pairing of text records and attachments   *)
(***************************************************************************)
\* const entryId = fileMeta.appProperties?.entryId || fileMeta.id
ParsedId(fileMeta) == IF fileMeta.entryId # Null THEN fileMeta.entryId ELSE fileMeta.id

\* imageFiles.filter(img => img.appProperties?.entryId === partial.id || false)
RelatedImages(imageFiles, partialId) ==
    {img \in imageFiles : img.entryId = partialId}

\* The date folders, then per folder its text files and the files of the
\* images folder findByName returned for it (imagesOf[d], Null when none);
\* one entry per text file.
FetchAll(fs, rootId, imagesOf) ==
    LET dateFolders == {d \in fs : d.parent = rootId /\ d.mimeType = FolderMime}
        textFiles(d) == {f \in fs : f.parent = d.id /\ f.mimeType = TextMime}
        imageFiles(d) ==
            {f \in fs : /\ imagesOf[d.id] # Null
                        /\ f.parent = imagesOf[d.id]
                        /\ f.mimeType # FolderMime}
    IN  UNION {{[file |-> tf.id, folder |-> d.id, id |-> ParsedId(tf),
                 images |-> {img.id : img \in RelatedImages(imageFiles(d), ParsedId(tf))}] :
                   tf \in textFiles(d)} : d \in dateFolders}

\* What findByName('images', folder.id, ...) may answer for each date folder.
ImagesFolderAnswers(fs, rootId) ==
    LET dateIds == {d.id : d \in {f \in fs : f.parent = rootId /\ f.mimeType = FolderMime}}
        imagesIds == {f.id : f \in {g \in fs : g.name = StrImages /\ g.mimeType = FolderMime}}
    IN  {p \in [dateIds -> {Null} \cup imagesIds] :
            \A d \in dateIds : p[d] \in findByName(fs, StrImages, d, IsFolderQ)}

\* A whole pass over a store that answers every call with 2xx.  The root is
\* created when it is missing (getAppFolderId).
FetchAllEntries ==
    /\ up.pc = "idle"
    /\ \E r \in findByName(files, APP_FOLDER_NAME, Null, IsFolderQ) :
         IF r = Null
         THEN /\ files' = files \cup {NewFile(DriveId(nextId), APP_FOLDER_NAME, Null, FolderMime, Null)}
              /\ nextId' = nextId + 1
              /\ fetched' = [result |-> "ok", entries |-> {}]
         ELSE /\ \E p \in ImagesFolderAnswers(files, r) :
                   fetched' = [result |-> "ok", entries |-> FetchAll(files, r, p)]
              /\ UNCHANGED <<files, nextId>>
    /\ UNCHANGED <<up, last, syncs, restVars, appVars>>

\* A pass one of whose listing calls is answered with an error: the catch
\* block of fetchAllEntriesFromDrive logs and rethrows.
FetchAllFails ==
    /\ up.pc = "idle"
    /\ fetched' = [result |-> "throw", entries |-> {}]
    /\ UNCHANGED <<files, nextId, up, last, syncs, restVars, appVars>>

(***************************************************************************)
(* parseJournalText                                                        *)
(***************************************************************************)
StartsWith(s, p) == Len(s) >= Len(p) /\ SubSeq(s, 1, Len(p)) = p

EndsWith(s, p) == Len(s) >= Len(p) /\ SubSeq(s, Len(s) - Len(p) + 1, Len(s)) = p

\* text.split('\n')
RECURSIVE SplitLines(_)
SplitLines(s) ==
    LET ks == {k \in 1..Len(s) : s[k] = "\n"} IN
    IF ks = {} THEN <<s>>
    ELSE LET i == CHOOSE k \in ks : \A j \in ks : k <= j
         IN  <<SubSeq(s, 1, i - 1)>> \o SplitLines(SubSeq(s, i + 1, Len(s)))

\* contentLines.join('\n')
RECURSIVE JoinLines(_)
JoinLines(lines) ==
    IF lines = <<>> THEN <<>>
    ELSE IF Len(lines) = 1 THEN lines[1]
    ELSE lines[1] \o <<"\n">> \o JoinLines(Tail(lines))

\* fileMeta.name.replace(/\.txt$/, '').replace(/_/g, ' ')
NameTitle(name) ==
    LET base == IF EndsWith(name, StrDotTxt) THEN SubSeq(name, 1, Len(name) - 4) ELSE name
    IN  [i \in 1..Len(base) |-> IF base[i] = "_" THEN " " ELSE base[i]]

StrNotes == <<"n", "o", "t", "e", "s">>
StrTitleColon == <<"T", "i", "t", "l", "e", ":">>
StrMoodColon == <<"M", "o", "o", "d", ":">>
StrDateColon == <<"D", "a", "t", "e", ":">>
StrDashes == <<"-", "-", "-">>

\* let title = 'Untitled'; the title taken from the file name, if it has one.
InitialTitle(name) ==
    LET nameTitle == NameTitle(name) IN
    IF nameTitle # <<>> /\ nameTitle # StrNotes /\ ~StartsWith(nameTitle, StrEntryDash)
    THEN nameTitle
    ELSE StrUntitled

\* The for loop over the lines, from line i (counted from 1); p holds title,
\* mood, contentLines and headerEnded.
RECURSIVE ParseLines(_, _, _)
ParseLines(lines, i, p) ==
    IF i > Len(lines) THEN p
    ELSE LET line == lines[i] IN
         IF ~p.headerEnded
         THEN IF StartsWith(line, StrTitleHdr)
              THEN LET extractedTitle == Trim(SubSeq(line, 8, Len(line)))
                   IN  ParseLines(lines, i + 1,
                           IF extractedTitle # <<>> THEN [p EXCEPT !.title = extractedTitle]
                           ELSE p)
              ELSE IF StartsWith(line, StrMoodHdr)
              THEN ParseLines(lines, i + 1, [p EXCEPT !.mood = Trim(SubSeq(line, 7, Len(line)))])
              ELSE IF Trim(line) = <<>>
              THEN ParseLines(lines, i + 1,
                       IF /\ i + 1 <= Len(lines)
                          /\ ~StartsWith(lines[i + 1], StrMoodColon)
                          /\ ~StartsWith(lines[i + 1], StrTitleColon)
                          /\ ~StartsWith(lines[i + 1], StrDateColon)
                       THEN [p EXCEPT !.headerEnded = TRUE]
                       ELSE p)
              ELSE IF ~StartsWith(line, StrDateColon)
              THEN ParseLines(lines, i + 1,
                       [p EXCEPT !.headerEnded = TRUE,
                                 !.contentLines = Append(@, line)])
              ELSE ParseLines(lines, i + 1, p)
         ELSE IF StartsWith(line, StrAttachHdr) THEN p
              ELSE IF Trim(line) = StrDashes THEN ParseLines(lines, i + 1, p)
              ELSE ParseLines(lines, i + 1, [p EXCEPT !.contentLines = Append(@, line)])

\* parseJournalText(text, fileMeta): the entry without its images.
parseJournalText(text, fileMeta) ==
    LET p == ParseLines(SplitLines(text), 1,
                 [title |-> InitialTitle(fileMeta.name), mood |-> Null,
                  contentLines |-> <<>>, headerEnded |-> FALSE])
    IN  [NoEntry EXCEPT !.id = IF fileMeta.entryId # Null THEN fileMeta.entryId
                               ELSE fileMeta.id,
                        !.title = p.title,
                        !.mood = p.mood,
                        !.content = Trim(JoinLines(p.contentLines)),
                        !.updatedAt = fileMeta.modifiedTime,
                        !.createdAt = fileMeta.modifiedTime]

(***************************************************************************)
(* fetchAllEntriesFromDrive, one action per awaited remote call.  The       *)
(* folders, which the code works on in parallel, are taken one after the   *)
(* other in any order; so are the text files of a folder, whose order is   *)
(* the listing's.                                                          *)
(***************************************************************************)
\* The number of files one answer of files.list holds (the provider's page
\* size): when more files match, the answer holds that many of them and a
\* nextPageToken.
PageSize == 2

\* The files arrays a listing of these matches may be answered with.
FirstPage(matches) ==
    IF Cardinality(matches) <= PageSize THEN {matches}
    ELSE {page \in SUBSET matches : Cardinality(page) = PageSize}

\* fetch() got no response: the promise rejects.
NoResponse == 0

\* What a download (a bare fetch of files/{id}?alt=media) may be answered with.
DownloadAnswers == Statuses \cup {NoResponse}

\* The body of an error response, which res.text() returns like any other.
StrErrorBody == <<"{", "e", "r", "r", "o", "r", "}">>

\* downloadText: the text res.text() resolves with.
downloadText(f, status) ==
    IF status \in 200..299 THEN f.text ELSE StrErrorBody

\* downloadImageAsBase64: the data URL FileReader makes of the response's body.
downloadImageAsBase64(f, status) ==
    IF status \in 200..299 /\ f.bytes # <<>> THEN DataUrl(f.bytes[2])
    ELSE DataUrl("e2Vycm9yfQ==")

StartedDl ==
    [pc |-> "findRoot", rootId |-> Null, folders |-> {}, folder |-> Null,
     textFiles |-> {}, imagesFolderId |-> Null, imageFiles |-> {}, tf |-> Null,
     partial |-> NoEntry, related |-> {},
     allEntries |-> <<>>, result |-> "none", kind |-> "none",
     \* history of the call, not read by the code:
     listed |-> {}, bad |-> {}]

\* A driveFetch of the call threw: the catch block logs and rethrows.
FetchThrows(d, status) ==
    [d EXCEPT !.pc = "done", !.result = "throw", !.kind = driveFetch(status)]

\* The next text file of the folder, the next folder, or return allEntries.
NextRecord(d) ==
    IF d.textFiles # {} THEN [d EXCEPT !.pc = "download"]
    ELSE IF d.folders # {} THEN [d EXCEPT !.pc = "listText"]
    ELSE [d EXCEPT !.pc = "done", !.result = "ok"]

FetchStart ==
    /\ dl.pc = "idle"
    /\ dl' = StartedDl
    /\ UNCHANGED <<files, nextId, up, last, fetched, syncs, other, serverNow, appVars>>

\* getAppFolderId: findByName(APP_FOLDER_NAME, null, folder)
FetchFindRoot ==
    /\ dl.pc = "findRoot"
    /\ \E status \in Statuses :
         IF driveFetch(status) = "ok"
         THEN \E r \in findByName(files, APP_FOLDER_NAME, Null, IsFolderQ) :
                dl' = [dl EXCEPT !.rootId = r,
                         !.pc = IF r = Null THEN "createRoot" ELSE "listFolders"]
         ELSE dl' = FetchThrows(dl, status)
    /\ UNCHANGED <<files, nextId, up, last, fetched, syncs, other, serverNow, appVars>>

\* getAppFolderId: createFolder(APP_FOLDER_NAME, null)
FetchCreateRoot ==
    /\ dl.pc = "createRoot"
    /\ \E status \in Statuses :
         IF driveFetch(status) = "ok"
         THEN /\ files' = files \cup
                    {NewFile(DriveId(nextId), APP_FOLDER_NAME, Null, FolderMime, Null)}
              /\ nextId' = nextId + 1
              /\ dl' = [dl EXCEPT !.rootId = DriveId(nextId), !.pc = "listFolders"]
         ELSE /\ dl' = FetchThrows(dl, status)
              /\ UNCHANGED <<files, nextId>>
    /\ UNCHANGED <<up, last, fetched, syncs, other, serverNow, appVars>>

\* 1. Get Date Folders: one files.list, its files array taken as the whole list.
FetchListFolders ==
    /\ dl.pc = "listFolders"
    /\ \E status \in Statuses :
         IF driveFetch(status) = "ok"
         THEN \E page \in FirstPage({f \in files : /\ f.parent = dl.rootId
                                                   /\ f.mimeType = FolderMime}) :
                dl' = NextRecord([dl EXCEPT !.folders = {f.id : f \in page}])
         ELSE dl' = FetchThrows(dl, status)
    /\ UNCHANGED <<files, nextId, up, last, fetched, syncs, other, serverNow, appVars>>

\* Get Text Files of a folder: one files.list.
FetchListText ==
    /\ dl.pc = "listText"
    /\ \E folder \in dl.folders, status \in Statuses :
         IF driveFetch(status) = "ok"
         THEN \E page \in FirstPage({f \in files : /\ f.parent = folder
                                                   /\ f.mimeType = TextMime}) :
                dl' = [dl EXCEPT !.folders = @ \ {folder}, !.folder = folder,
                         !.textFiles = {f.id : f \in page},
                         !.listed = @ \cup {f.id : f \in page},
                         !.imagesFolderId = Null, !.imageFiles = {}, !.pc = "findImages"]
         ELSE dl' = FetchThrows(dl, status)
    /\ UNCHANGED <<files, nextId, up, last, fetched, syncs, other, serverNow, appVars>>

\* Get Image Files (if any): findByName('images', folder.id, folder)
FetchFindImages ==
    /\ dl.pc = "findImages"
    /\ \E status \in Statuses :
         IF driveFetch(status) = "ok"
         THEN \E r \in findByName(files, StrImages, dl.folder, IsFolderQ) :
                dl' = IF r # Null
                      THEN [dl EXCEPT !.pc = "listImages", !.imagesFolderId = r]
                      ELSE NextRecord(dl)
         ELSE dl' = FetchThrows(dl, status)
    /\ UNCHANGED <<files, nextId, up, last, fetched, syncs, other, serverNow, appVars>>

\* The files of the images folder: one files.list.
FetchListImages ==
    /\ dl.pc = "listImages"
    /\ \E status \in Statuses :
         IF driveFetch(status) = "ok"
         THEN \E page \in FirstPage({f \in files : /\ f.parent = dl.imagesFolderId
                                                   /\ f.mimeType # FolderMime}) :
                dl' = NextRecord([dl EXCEPT !.imageFiles = {f.id : f \in page}])
         ELSE dl' = FetchThrows(dl, status)
    /\ UNCHANGED <<files, nextId, up, last, fetched, syncs, other, serverNow, appVars>>

\* for (const tf of textFiles): downloadText and parseJournalText inside try;
\* a rejected fetch is caught and the record skipped.  The response's status
\* is not looked at.
FetchDownloadText ==
    /\ dl.pc = "download"
    /\ \E id \in dl.textFiles, status \in DownloadAnswers :
         LET rest == [dl EXCEPT !.textFiles = @ \ {id}, !.tf = id,
                        !.bad = IF status \in 200..299 THEN @ ELSE @ \cup {id}]
         IN  IF status = NoResponse
             THEN dl' = NextRecord(rest)
             ELSE LET tf == ById(files, id)
                      partial == parseJournalText(downloadText(tf, status), tf)
                      relatedImages ==
                          RelatedImages({f \in files : f.id \in dl.imageFiles}, partial.id)
                  IN  dl' = IF relatedImages = {}
                            THEN NextRecord([rest EXCEPT !.allEntries = Append(@, partial)])
                            ELSE [rest EXCEPT !.pc = "downloadImages",
                                    !.partial = partial,
                                    !.related = {f.id : f \in relatedImages}]
    /\ UNCHANGED <<files, nextId, up, last, fetched, syncs, other, serverNow, appVars>>

\* The images of the entry as a sequence, in the order their downloads end.
RECURSIVE EntryImages(_, _)
EntryImages(fs, status) ==
    IF fs = {} THEN {<<>>}
    ELSE UNION {{<<[id |-> f.id, data |-> downloadImageAsBase64(f, status),
                    mimeType |-> f.mimeType]>> \o tail :
                   tail \in EntryImages(fs \ {f}, status)} : f \in fs}

\* Promise.all over the related images, then allEntries.push; a rejected
\* fetch is caught by the try block around the record.
FetchDownloadImages ==
    /\ dl.pc = "downloadImages"
    /\ \E status \in DownloadAnswers :
         IF status = NoResponse
         THEN dl' = NextRecord([dl EXCEPT !.partial = NoEntry, !.related = {},
                                  !.bad = @ \cup {dl.tf}])
         ELSE \E entryImages \in EntryImages({f \in files : f.id \in dl.related}, status) :
                dl' = NextRecord([dl EXCEPT !.partial = NoEntry, !.related = {},
                                    !.allEntries =
                                        Append(@, [dl.partial EXCEPT !.images = entryImages])])
    /\ UNCHANGED <<files, nextId, up, last, fetched, syncs, other, serverNow, appVars>>

(***************************************************************************)
(* The orchestrator (App.tsx).  Here the remote store is the environment:  *)
(* other devices write to it, so a pass may return any list of remote      *)
(* entries, and an upload or a remote delete may end in each of the ways   *)
(* syncEntryToDrive and deleteEntryFromDrive can end.  A handler runs      *)
(* atomically up to its next await; what it read from the render it was    *)
(* created in (entries, activeEntry, accessToken) travels with it.         *)
(***************************************************************************)
\* The largest value of the clock Date.now().
MaxNow == 5

\* The largest updatedAt of a remote version.
MaxCloudTime == 2

\* How many handleCloudSync calls the model follows.
MaxPasses == 2

\* The clock when the app is opened.
FirstNow == 2

\* How many entries createNewEntry makes.
MaxCreates == 1

\* createNewEntry is offered while the list is shorter than this.
MaxEntries == 2

\* How many times the auth callback delivers a token.
MaxLogins == 1

IdA == LocalId(1)
\* An entry that exists on the remote side only.
IdRemote == DriveId(9)

StrX == <<"x">>
StrR == <<"r">>

\* The titles the editor gives the active entry.
EditorTitles == {<<>>, StrX}

Token(n) == <<"t", DigitChar(n)>>

\* The entry the local store holds when the app is opened, if any.
StoredEntry == [NoEntry EXCEPT !.id = IdA, !.title = StrX, !.createdAt = 1, !.updatedAt = 1]

\* The remote entries a pass can be answered with: versions of IdA of every
\* age and an entry that exists remotely only.
CloudEntries ==
    {[NoEntry EXCEPT !.id = IdA, !.title = StrR, !.createdAt = 1, !.updatedAt = t] :
        t \in 0..MaxCloudTime}
    \cup {[NoEntry EXCEPT !.id = IdRemote, !.title = StrR, !.createdAt = 1, !.updatedAt = 1]}

\* fetchAllEntriesFromDrive's answers: nothing, one remote entry, the newest
\* version of IdA followed by the remote-only entry, or the remote-only entry
\* twice (one entry per text record, and two records carry its entryId).
CloudLists ==
    {<<>>} \cup {<<c>> : c \in CloudEntries}
           \cup {l \in {<<c, d>> : c \in CloudEntries, d \in CloudEntries} :
                     \/ /\ l[1].id = IdA /\ l[1].updatedAt = MaxCloudTime
                        /\ l[2].id = IdRemote
                     \/ l[1].id = IdRemote /\ l[2].id = IdRemote}

\* JSON.stringify({ t: title, c: content, i: images, m: mood })
Hash(e) == <<e.title, e.content, e.images, e.mood>>

\* The local store: put replaces the entry of the same id, delete removes it.
Put(st, e) == {x \in st : x.id # e.id} \cup {e}
Remove(st, id) == {x \in st : x.id # id}

Ids(list) == {list[k].id : k \in 1..Len(list)}

\* entries.find(e => e.id === id): the first entry of that id.
Find(list, id) ==
    LET ks == {k \in 1..Len(list) : list[k].id = id}
    IN  list[CHOOSE k \in ks : \A j \in ks : k <= j]

\* entries.filter(x => x.id !== id)
RECURSIVE Without(_, _)
Without(list, id) ==
    IF list = <<>> THEN <<>>
    ELSE IF Head(list).id = id THEN Without(Tail(list), id)
    ELSE <<Head(list)>> \o Without(Tail(list), id)

\* prev.map(e => e.id === u.id ? u : e)
MapReplace(list, u) == [k \in 1..Len(list) |-> IF list[k].id = u.id THEN u ELSE list[k]]

\* list.sort((a, b) => b.updatedAt - a.updatedAt): stable, newest first.
RECURSIVE InsertDesc(_, _)
InsertDesc(sorted, e) ==
    IF sorted = <<>> THEN <<e>>
    ELSE IF Head(sorted).updatedAt >= e.updatedAt
         THEN <<Head(sorted)>> \o InsertDesc(Tail(sorted), e)
         ELSE <<e>> \o sorted

RECURSIVE SortDesc(_)
SortDesc(list) ==
    IF list = <<>> THEN <<>>
    ELSE InsertDesc(SortDesc(SubSeq(list, 1, Len(list) - 1)), list[Len(list)])

\* The merge rule of handleCloudSync: the remote entry replaces the local one
\* when it is strictly newer.
CloudWins(cloudEntry, localEntry) == cloudEntry.updatedAt > localEntry.updatedAt

\* The for loop of handleCloudSync over cloudEntries, from position k: localMap
\* is built from the entries of the closure and is not updated by the loop;
\* acc is [merged, st, hasChanges].
RECURSIVE MergeLoop(_, _, _, _)
MergeLoop(snap, cloud, k, acc) ==
    IF k > Len(cloud) THEN acc
    ELSE LET c == cloud[k] IN
         IF c.id \notin Ids(snap)
         THEN MergeLoop(snap, cloud, k + 1,
                  [merged |-> Append(acc.merged, c), st |-> Put(acc.st, c),
                   hasChanges |-> TRUE])
         ELSE IF CloudWins(c, snap[CHOOSE j \in 1..Len(snap) :
                                      /\ snap[j].id = c.id
                                      /\ \A i \in (j + 1)..Len(snap) : snap[i].id # c.id])
         THEN \* findIndex: the first entry of that id in mergedEntries
              LET ks == {j \in 1..Len(acc.merged) : acc.merged[j].id = c.id}
                  idx == CHOOSE j \in ks : \A i \in ks : j <= i
              IN  MergeLoop(snap, cloud, k + 1,
                      [merged |-> [acc.merged EXCEPT ![idx] = c], st |-> Put(acc.st, c),
                       hasChanges |-> TRUE])
         ELSE MergeLoop(snap, cloud, k + 1, acc)

\* const mergedEntries = [...entries]; the loop; the store it has written.
Merge(snap, cloud, st) ==
    MergeLoop(snap, cloud, 1, [merged |-> snap, st |-> st, hasChanges |-> FALSE])

Closure == [snap |-> entries, active |-> activeEntry, token |-> accessToken]

\* before: what the local store held under the entry's id when saveEntry was
\* called, which is what it still holds when the put is rejected.
NoTask == [pc |-> "idle", entry |-> NoEntry, token |-> Null, before |-> NoEntry]

\* The manual save: pc "modal" is showSaveModal, saveFileName the modal's field.
NoManual == [pc |-> "idle", entry |-> NoEntry, token |-> Null, saveFileName |-> Null]

NoDel ==
    [pc |-> "idle", id |-> Null, snap |-> <<>>, active |-> NoEntry, token |-> Null,
     \* history of the call, not read by the code:
     found |-> FALSE, attempted |-> FALSE, kind |-> "none"]

NoTimeout == [armed |-> FALSE, entry |-> NoEntry, token |-> Null]

\* No pass or upload run has ended with an error.
NoThrown == [run |-> "none", kind |-> "none", result |-> "none"]

\* The orchestrator before the component is mounted.
AppIdle ==
    /\ entries = <<>> /\ store = {} /\ activeEntry = NoEntry
    /\ accessToken = Null /\ isLoggedIn = FALSE /\ isSyncing = FALSE
    /\ isSavingRef = FALSE /\ pendingSaveRef = NoEntry /\ lastSavedHash = <<>>
    /\ saveTimeout = NoTimeout /\ entryToDelete = Null /\ loading = FALSE
    /\ syncTimers = <<>> /\ passes = <<>>
    /\ save = NoTask /\ manual = NoManual /\ del = NoDel
    /\ now = 0 /\ logins = 0 /\ cloudEntries = <<>> /\ passCount = 0
    /\ thrown = NoThrown

\* After the first render and its effects: loadLocalEntries awaits the store;
\* with a valid stored token the session is restored and the login effect of
\* the next render, which still shows no entry, has armed its timer.
InitApp ==
    /\ files = {} /\ nextId = 4 /\ up = IdleUp /\ last = NoLast
    /\ fetched = NoFetch /\ syncs = 0
    /\ dl = IdleDl /\ other = IdleUp /\ serverNow = 0
    /\ entries = <<>> /\ activeEntry = NoEntry
    /\ store \in {{}, {StoredEntry}}
    /\ loading = TRUE
    /\ \E stored \in BOOLEAN :
         /\ accessToken = IF stored THEN Token(0) ELSE Null
         /\ isLoggedIn = stored
         /\ syncTimers = IF stored
                         THEN <<[snap |-> <<>>, active |-> NoEntry, token |-> Token(0)]>>
                         ELSE <<>>
    /\ isSyncing = FALSE
    /\ isSavingRef = FALSE /\ pendingSaveRef = NoEntry /\ lastSavedHash = <<>>
    /\ saveTimeout = NoTimeout /\ entryToDelete = Null
    /\ passes = <<>>
    /\ save = NoTask /\ manual = NoManual /\ del = NoDel
    /\ now = FirstNow /\ logins = 0 /\ cloudEntries = <<>> /\ passCount = 0
    /\ thrown = NoThrown

\* getAllEntries resolves: any order of the stored entries.
Orders(st) ==
    {l \in UNION {[1..n -> st] : n \in {Cardinality(st)}} :
        \A i, j \in 1..Len(l) : i # j => l[i] # l[j]}

\* loadLocalEntries after its await.
LoadLocalEntries ==
    /\ loading
    /\ loading' = FALSE
    /\ \E loaded \in Orders(store) :
         /\ entries' = loaded
         /\ IF Len(loaded) > 0 /\ activeEntry = NoEntry
            THEN /\ activeEntry' = loaded[1]
                 /\ lastSavedHash' = Hash(loaded[1])
            ELSE UNCHANGED <<activeEntry, lastSavedHash>>
    /\ UNCHANGED <<store, accessToken, isLoggedIn, isSyncing, isSavingRef, pendingSaveRef,
                   saveTimeout, entryToDelete, syncTimers, passes, save, manual, del,
                   now, logins, cloudEntries, passCount, thrown, remoteVars>>

\* handleLogout, as the state it sets.
LoggedOut == /\ accessToken' = Null /\ isLoggedIn' = FALSE

\* The token client's callback delivers a token; the login effect of the next
\* render arms setTimeout(() => handleCloudSync(), 500).
Login ==
    /\ ~isLoggedIn
    /\ logins < MaxLogins
    /\ logins' = logins + 1
    /\ accessToken' = Token(logins + 1)
    /\ isLoggedIn' = TRUE
    /\ syncTimers' = Append(syncTimers, [Closure EXCEPT !.token = Token(logins + 1)])
    /\ UNCHANGED <<entries, store, activeEntry, isSyncing, isSavingRef, pendingSaveRef,
                   lastSavedHash, saveTimeout, entryToDelete, loading, passes, save,
                   manual, del, now, cloudEntries, passCount, thrown, remoteVars>>

\* The sidebar's logout button.
Logout ==
    /\ isLoggedIn
    /\ LoggedOut
    /\ UNCHANGED <<entries, store, activeEntry, isSyncing, isSavingRef, pendingSaveRef,
                   lastSavedHash, saveTimeout, entryToDelete, loading, syncTimers, passes,
                   save, manual, del, now, logins, cloudEntries, passCount, thrown, remoteVars>>

\* handleCloudSync up to its await: no check of isSyncing is made.
StartPass(c) ==
    /\ passCount < MaxPasses
    /\ IF c.token = Null
       THEN UNCHANGED <<isSyncing, passes, passCount>>
       ELSE /\ isSyncing' = TRUE
            /\ passes' = Append(passes, c)
            /\ passCount' = passCount + 1

\* The timer of the login effect fires.
SyncTimerFires ==
    /\ syncTimers # <<>>
    /\ StartPass(Head(syncTimers))
    /\ syncTimers' = Tail(syncTimers)
    /\ UNCHANGED <<entries, store, activeEntry, accessToken, isLoggedIn, isSavingRef,
                   pendingSaveRef, lastSavedHash, saveTimeout, entryToDelete, loading,
                   save, manual, del, now, logins, cloudEntries, thrown, remoteVars>>

\* The sidebar's sync button: shown when logged in, disabled while isSyncing.
SyncButton ==
    /\ isLoggedIn /\ ~isSyncing
    /\ StartPass(Closure)
    /\ UNCHANGED <<entries, store, activeEntry, accessToken, isLoggedIn, isSavingRef,
                   pendingSaveRef, lastSavedHash, saveTimeout, entryToDelete, loading,
                   syncTimers, save, manual, del, now, logins, cloudEntries, thrown, remoteVars>>

DropAt(seq, i) == SubSeq(seq, 1, i - 1) \o SubSeq(seq, i + 1, Len(seq))

\* fetchAllEntriesFromDrive resolves with cloud: the merge, then finally.
PassMerges(i, cloud) ==
    /\ i \in 1..Len(passes)
    /\ LET c == passes[i]
           m == Merge(c.snap, cloud, store)
           sorted == SortDesc(m.merged)
       IN  /\ store' = m.st
           /\ IF m.hasChanges
              THEN /\ entries' = sorted
                   /\ activeEntry' =
                        IF c.active # NoEntry
                        THEN IF /\ c.active.id \in Ids(sorted)
                                /\ Find(sorted, c.active.id).updatedAt # c.active.updatedAt
                             THEN Find(sorted, c.active.id)
                             ELSE activeEntry
                        ELSE IF Len(sorted) > 0 THEN sorted[1] ELSE activeEntry
              ELSE UNCHANGED <<entries, activeEntry>>
    /\ isSyncing' = FALSE
    /\ passes' = DropAt(passes, i)
    /\ cloudEntries' = cloud
    /\ thrown' = NoThrown
    /\ UNCHANGED <<accessToken, isLoggedIn, isSavingRef, pendingSaveRef, lastSavedHash,
                   saveTimeout, entryToDelete, loading, syncTimers, save, manual, del,
                   now, logins, passCount, remoteVars>>

PassReturns == \E i \in 1..Len(passes), cloud \in CloudLists : PassMerges(i, cloud)

\* fetchAllEntriesFromDrive throws, the auth error or another: catch logs the
\* error, whichever it is, and finally clears the flag.
PassFails ==
    /\ \E i \in 1..Len(passes) : passes' = DropAt(passes, i)
    /\ isSyncing' = FALSE
    /\ cloudEntries' = <<>>
    /\ \E kind \in {"auth", "error"} : thrown' = [run |-> "pass", kind |-> kind, result |-> "throw"]
    /\ UNCHANGED <<entries, store, activeEntry, accessToken, isLoggedIn, isSavingRef,
                   pendingSaveRef, lastSavedHash, saveTimeout, entryToDelete, loading,
                   syncTimers, save, manual, del, now, logins, passCount, remoteVars>>

\* createNewEntry: a blank entry dated now, shown first, stored at once.
CreateNewEntry ==
    /\ ~loading
    /\ now < FirstNow + MaxCreates /\ Len(entries) < MaxEntries
    /\ LET newEntry == [NoEntry EXCEPT !.id = LocalId(now), !.createdAt = now,
                                       !.updatedAt = now]
       IN  /\ entries' = <<newEntry>> \o entries
           /\ activeEntry' = newEntry
           /\ lastSavedHash' = Hash(newEntry)
           /\ store' = Put(store, newEntry)
    /\ now' = now + 1
    /\ UNCHANGED <<accessToken, isLoggedIn, isSyncing, isSavingRef, pendingSaveRef,
                   saveTimeout, entryToDelete, loading, syncTimers, passes, save, manual,
                   del, logins, cloudEntries, passCount, thrown, remoteVars>>

\* handleRequestDelete: the trash icon of an entry of the list.
HandleRequestDelete ==
    /\ entryToDelete = Null /\ del.pc = "idle"
    /\ \E id \in Ids(entries) : entryToDelete' = id
    /\ UNCHANGED <<entries, store, activeEntry, accessToken, isLoggedIn, isSyncing,
                   isSavingRef, pendingSaveRef, lastSavedHash, saveTimeout, loading,
                   syncTimers, passes, save, manual, del, now, logins, cloudEntries, passCount, thrown, remoteVars>>

\* Which half of confirmDelete runs first: the remote deletion needs the entry
\* in the list and a token.
DeleteFirst(found, token) == IF found /\ token # Null THEN "remote" ELSE "local"

\* The catch block of deleteEntryFromDrive: rethrow the auth error, log the rest.
DeleteCatch(kind) == IF kind = "auth" THEN "throw" ELSE "return"

\* How a remote deletion can end: done, or a driveFetch threw.
DeleteEnds == {"return", DeleteCatch("auth"), DeleteCatch("error")}

\* confirmDelete up to its first await.
ConfirmDelete ==
    /\ entryToDelete # Null /\ del.pc = "idle"
    /\ LET found == entryToDelete \in Ids(entries)
           first == DeleteFirst(found, accessToken)
       IN  /\ del' = [pc |-> first, id |-> entryToDelete, snap |-> entries,
                      active |-> activeEntry, token |-> accessToken,
                      found |-> found, attempted |-> first = "remote", kind |-> "none"]
           /\ store' = IF first = "local" THEN Remove(store, entryToDelete) ELSE store
    /\ UNCHANGED <<entries, activeEntry, accessToken, isLoggedIn, isSyncing, isSavingRef,
                   pendingSaveRef, lastSavedHash, saveTimeout, entryToDelete, loading,
                   syncTimers, passes, save, manual, now, logins, cloudEntries, passCount, thrown, remoteVars>>

\* deleteEntryFromDrive ends: on the auth error handleLogout; in every case
\* the local deletion follows.
DeleteRemoteDone ==
    /\ del.pc = "remote"
    /\ \E kind \in {"none", "auth", "error"} :
         /\ del' = [del EXCEPT !.pc = "local", !.kind = kind]
         /\ IF kind # "none" /\ DeleteCatch(kind) = "throw"
            THEN LoggedOut
            ELSE UNCHANGED <<accessToken, isLoggedIn>>
    /\ store' = Remove(store, del.id)
    /\ UNCHANGED <<entries, activeEntry, isSyncing, isSavingRef, pendingSaveRef,
                   lastSavedHash, saveTimeout, entryToDelete, loading, syncTimers, passes,
                   save, manual, now, logins, cloudEntries, passCount, thrown, remoteVars>>

\* deleteEntry resolved: the list of the closure without the entry.
DeleteLocalDone ==
    /\ del.pc = "local"
    /\ LET newEntries == Without(del.snap, del.id)
       IN  /\ entries' = newEntries
           /\ activeEntry' =
                IF del.active # NoEntry /\ del.active.id = del.id
                THEN IF Len(newEntries) > 0 THEN newEntries[1] ELSE NoEntry
                ELSE activeEntry
    /\ entryToDelete' = Null
    /\ del' = NoDel
    /\ UNCHANGED <<store, accessToken, isLoggedIn, isSyncing, isSavingRef, pendingSaveRef,
                   lastSavedHash, saveTimeout, loading, syncTimers, passes, save, manual,
                   now, logins, cloudEntries, passCount, thrown, remoteVars>>

\* handleUpdateEntry: the editor reports a change of the active entry.
HandleUpdateEntry ==
    /\ activeEntry # NoEntry
    /\ now < MaxNow
    /\ \E title \in EditorTitles \ {activeEntry.title} :
         LET entryWithTimestamp == [activeEntry EXCEPT !.title = title, !.updatedAt = now]
         IN  /\ activeEntry' = entryWithTimestamp
             /\ entries' = SortDesc(MapReplace(entries, entryWithTimestamp))
             /\ saveTimeout' = [armed |-> TRUE, entry |-> entryWithTimestamp,
                                token |-> accessToken]
    /\ now' = now + 1
    /\ UNCHANGED <<store, accessToken, isLoggedIn, isSyncing, isSavingRef, pendingSaveRef,
                   lastSavedHash, entryToDelete, loading, syncTimers, passes, save, manual,
                   del, logins, cloudEntries, passCount, thrown, remoteVars>>

\* The stored entry of this id, NoEntry when there is none.
StoredUnder(st, id) ==
    IF \E x \in st : x.id = id THEN CHOOSE x \in st : x.id = id ELSE NoEntry

\* performSave up to its first await, as the values it leaves in
\* [isSavingRef, pendingSaveRef, save, store].
PerformSave(entry, token, saving, pending, st) ==
    IF Hash(entry) = lastSavedHash /\ pending = NoEntry
    THEN [isSavingRef |-> saving, pendingSaveRef |-> pending, save |-> NoTask, st |-> st,
          started |-> FALSE]
    ELSE IF saving
    THEN [isSavingRef |-> saving, pendingSaveRef |-> entry, save |-> NoTask, st |-> st,
          started |-> FALSE]
    ELSE [isSavingRef |-> TRUE, pendingSaveRef |-> pending,
          save |-> [pc |-> "local", entry |-> entry, token |-> token,
                    before |-> StoredUnder(st, entry.id)],
          st |-> Put(st, entry), started |-> TRUE]

\* The autosave timer fires: performSave(entryWithTimestamp).
SaveTimerFires ==
    /\ saveTimeout.armed
    /\ saveTimeout' = NoTimeout
    /\ LET r == PerformSave(saveTimeout.entry, saveTimeout.token, isSavingRef,
                            pendingSaveRef, store)
       IN  /\ isSavingRef' = r.isSavingRef
           /\ pendingSaveRef' = r.pendingSaveRef
           /\ store' = r.st
           /\ save' = IF r.started THEN r.save ELSE save
    /\ UNCHANGED <<entries, activeEntry, accessToken, isLoggedIn, isSyncing, lastSavedHash,
                   entryToDelete, loading, syncTimers, passes, manual, del, now, logins,
                   cloudEntries, passCount, thrown, remoteVars>>

\* The finally block of performSave with the flag left set: what the save
\* would leave behind if its finally block did not clear isSavingRef.
FinallyKeepsFlag(st, token, hash) ==
    /\ pendingSaveRef' = pendingSaveRef
    /\ isSavingRef' = TRUE
    /\ store' = st
    /\ save' = NoTask

\* The finally block of performSave, the local store being st: clear the flag,
\* empty the slot and call performSave on what the slot held.
FinallyOn(st, token, hash) ==
    LET nextEntry == pendingSaveRef
        r == IF nextEntry # NoEntry
             THEN IF Hash(nextEntry) = hash
                  THEN [started |-> FALSE, st |-> st, save |-> NoTask]
                  ELSE [started |-> TRUE, st |-> Put(st, nextEntry),
                        save |-> [pc |-> "local", entry |-> nextEntry, token |-> token,
                                  before |-> StoredUnder(st, nextEntry.id)]]
             ELSE [started |-> FALSE, st |-> st, save |-> NoTask]
    IN  /\ pendingSaveRef' = NoEntry
        /\ isSavingRef' = r.started
        /\ store' = r.st
        /\ save' = r.save

\* The finally block after a put that was written.
Finally(token, hash) == FinallyOn(store, token, hash)

\* saveEntry rejected: lastSavedHash keeps its value, the error is not the
\* auth error, and the finally block runs on the store without the put.
SaveLocalFails ==
    /\ save.pc = "local"
    /\ thrown' = [run |-> "save", kind |-> "local", result |-> "caught"]
    /\ FinallyOn(IF save.before = NoEntry THEN Remove(store, save.entry.id)
                 ELSE Put(store, save.before),
                 save.token, lastSavedHash)
    /\ UNCHANGED <<entries, activeEntry, accessToken, isLoggedIn, isSyncing, lastSavedHash,
                   saveTimeout, entryToDelete, loading, syncTimers, passes, manual, del,
                   now, logins, cloudEntries, passCount, remoteVars>>

\* saveEntry resolved: record the hash, then the upload if the closure has a
\* token, else finally.
SaveLocalDone ==
    /\ save.pc = "local"
    /\ lastSavedHash' = Hash(save.entry)
    /\ IF save.token # Null
       THEN /\ save' = [save EXCEPT !.pc = "remote"]
            /\ UNCHANGED <<isSavingRef, pendingSaveRef, store>>
       ELSE Finally(save.token, Hash(save.entry))
    /\ UNCHANGED <<entries, activeEntry, accessToken, isLoggedIn, isSyncing, saveTimeout,
                   entryToDelete, loading, syncTimers, passes, manual, del, now, logins,
                   cloudEntries, passCount, thrown, remoteVars>>

\* How syncEntryToDrive can end for its caller.
SyncEnds == {"true", SyncCatch("auth"), SyncCatch("error")}

\* How it ends when its try block ended with this kind of error ("none": with
\* return true).
SyncEnd(kind) == IF kind = "none" THEN "true" ELSE SyncCatch(kind)

\* syncEntryToDrive ends: handleLogout when it threw the auth error, then finally.
SaveRemoteDone ==
    /\ save.pc = "remote"
    /\ \E kind \in {"none", "auth", "error"} :
         /\ SyncEnd(kind) \in SyncEnds
         /\ IF SyncEnd(kind) = "throw" /\ kind = "auth"
            THEN LoggedOut
            ELSE UNCHANGED <<accessToken, isLoggedIn>>
         /\ thrown' = IF kind = "none" THEN NoThrown
                      ELSE [run |-> "save", kind |-> kind, result |-> SyncEnd(kind)]
    /\ Finally(save.token, lastSavedHash)
    /\ UNCHANGED <<entries, activeEntry, isSyncing, lastSavedHash, saveTimeout,
                   entryToDelete, loading, syncTimers, passes, manual, del, now, logins,
                   cloudEntries, passCount, remoteVars>>

\* handleManualSaveRequest, logged in: the modal opens with the default name.
HandleManualSaveRequest ==
    /\ isLoggedIn
    /\ activeEntry # NoEntry
    /\ manual.pc = "idle"
    /\ manual' = [NoManual EXCEPT !.pc = "modal", !.saveFileName =
                      IF activeEntry.driveFileName # Null THEN activeEntry.driveFileName
                      ELSE DesiredFileName(activeEntry.title)]
    /\ UNCHANGED <<entries, store, activeEntry, accessToken, isLoggedIn, isSyncing,
                   isSavingRef, pendingSaveRef, lastSavedHash, saveTimeout, entryToDelete,
                   loading, syncTimers, passes, save, del, now, logins, cloudEntries,
                   passCount, thrown, remoteVars>>

\* The modal's Cancel button.
CancelManualSave ==
    /\ manual.pc = "modal"
    /\ manual' = NoManual
    /\ UNCHANGED <<entries, store, activeEntry, accessToken, isLoggedIn, isSyncing,
                   isSavingRef, pendingSaveRef, lastSavedHash, saveTimeout, entryToDelete,
                   loading, syncTimers, passes, save, del, now, logins, cloudEntries,
                   passCount, thrown, remoteVars>>

\* confirmManualSave (the modal's Save button) up to the first await: no check
\* of isSavingRef is made.
ConfirmManualSave ==
    /\ manual.pc = "modal"
    /\ activeEntry # NoEntry /\ accessToken # Null
    /\ LET updatedEntry == [activeEntry EXCEPT !.driveFileName = manual.saveFileName]
       IN  /\ activeEntry' = updatedEntry
           /\ entries' = MapReplace(entries, updatedEntry)
           /\ store' = Put(store, updatedEntry)
           /\ manual' = [manual EXCEPT !.pc = "local", !.entry = updatedEntry,
                                       !.token = accessToken]
    /\ UNCHANGED <<accessToken, isLoggedIn, isSyncing, isSavingRef, pendingSaveRef,
                   lastSavedHash, saveTimeout, entryToDelete, loading, syncTimers, passes,
                   save, del, now, logins, cloudEntries, passCount, thrown, remoteVars>>

\* saveEntry resolved: the modal closes and the upload starts.
ManualLocalDone ==
    /\ manual.pc = "local"
    /\ manual' = [manual EXCEPT !.pc = "remote"]
    /\ UNCHANGED <<entries, store, activeEntry, accessToken, isLoggedIn, isSyncing,
                   isSavingRef, pendingSaveRef, lastSavedHash, saveTimeout, entryToDelete,
                   loading, syncTimers, passes, save, del, now, logins, cloudEntries, passCount, thrown, remoteVars>>

\* syncEntryToDrive ends: handleLogout when it threw the auth error.
ManualRemoteDone ==
    /\ manual.pc = "remote"
    /\ \E kind \in {"none", "auth", "error"} :
         /\ SyncEnd(kind) \in SyncEnds
         /\ IF SyncEnd(kind) = "throw" /\ kind = "auth"
            THEN LoggedOut
            ELSE UNCHANGED <<accessToken, isLoggedIn>>
         /\ thrown' = IF kind = "none" THEN NoThrown
                      ELSE [run |-> "manual", kind |-> kind, result |-> SyncEnd(kind)]
    /\ manual' = NoManual
    /\ UNCHANGED <<entries, store, activeEntry, isSyncing, isSavingRef, pendingSaveRef,
                   lastSavedHash, saveTimeout, entryToDelete, loading, syncTimers, passes,
                   save, del, now, logins, cloudEntries, passCount, remoteVars>>

(***************************************************************************)
(* The reconciliation specification: login, passes, new entries, deletes.  *)
(***************************************************************************)
NextApp ==
    \/ LoadLocalEntries
    \/ Login
    \/ SyncTimerFires
    \/ SyncButton
    \/ PassReturns
    \/ PassFails
    \/ CreateNewEntry
    \/ HandleRequestDelete
    \/ ConfirmDelete
    \/ DeleteRemoteDone
    \/ DeleteLocalDone

SpecApp == InitApp /\ [][NextApp]_vars

(***************************************************************************)
(* The save specification: the editor, the autosave timer, the manual save.*)
(***************************************************************************)
NextSave ==
    \/ LoadLocalEntries
    \/ Logout
    \/ HandleUpdateEntry
    \/ SaveTimerFires
    \/ SaveLocalDone
    \/ SaveLocalFails
    \/ SaveRemoteDone
    \/ HandleManualSaveRequest
    \/ CancelManualSave
    \/ ConfirmManualSave
    \/ ManualLocalDone
    \/ ManualRemoteDone

\* As InitApp, with an entry in the store and no login timer to come: the pass
\* of the login effect has found nothing remote.
InitSave ==
    /\ files = {} /\ nextId = 4 /\ up = IdleUp /\ last = NoLast
    /\ fetched = NoFetch /\ syncs = 0
    /\ dl = IdleDl /\ other = IdleUp /\ serverNow = 0
    /\ entries = <<>> /\ activeEntry = NoEntry
    /\ store = {StoredEntry}
    /\ loading = TRUE
    /\ accessToken \in {Null, Token(0)}
    /\ isLoggedIn = (accessToken # Null)
    /\ syncTimers = <<>> /\ isSyncing = FALSE
    /\ isSavingRef = FALSE /\ pendingSaveRef = NoEntry /\ lastSavedHash = <<>>
    /\ saveTimeout = NoTimeout /\ entryToDelete = Null
    /\ passes = <<>>
    /\ save = NoTask /\ manual = NoManual /\ del = NoDel
    /\ now = FirstNow /\ logins = 0 /\ cloudEntries = <<>> /\ passCount = 0
    /\ thrown = NoThrown

SpecSave == InitSave /\ [][NextSave]_vars

(***************************************************************************)
(* The save specification with the awaited calls settling: saveEntry       *)
(* resolves or rejects, syncEntryToDrive returns or throws.  performSave   *)
(* awaits both inside its try block, so each save that started goes on to  *)
(* its finally block.                                                      *)
(***************************************************************************)
SpecSaveFair ==
    /\ SpecSave
    /\ WF_vars(SaveLocalDone \/ SaveLocalFails)
    /\ WF_vars(SaveRemoteDone)

(***************************************************************************)
(* The editor with two entries: selecting an entry in the sidebar, edits,  *)
(* the autosave timer and the saves it starts.                             *)
(***************************************************************************)
\* A second stored entry, older than StoredEntry.
SecondEntry ==
    [NoEntry EXCEPT !.id = LocalId(0), !.title = StrR, !.createdAt = 0, !.updatedAt = 0]

\* Sidebar onSelect: the entry becomes the active one and lastSavedHash is set
\* to its hash.  The autosave timer is left as it is.
SelectEntry ==
    /\ ~loading
    /\ \E k \in 1..Len(entries) :
         /\ entries[k].id # activeEntry.id
         /\ activeEntry' = entries[k]
         /\ lastSavedHash' = Hash(entries[k])
    /\ UNCHANGED <<entries, store, accessToken, isLoggedIn, isSyncing, isSavingRef,
                   pendingSaveRef, saveTimeout, entryToDelete, loading, syncTimers, passes,
                   save, manual, del, now, logins, cloudEntries, passCount, thrown,
                   remoteVars>>

InitEdit ==
    /\ files = {} /\ nextId = 4 /\ up = IdleUp /\ last = NoLast
    /\ fetched = NoFetch /\ syncs = 0
    /\ dl = IdleDl /\ other = IdleUp /\ serverNow = 0
    /\ entries = <<>> /\ activeEntry = NoEntry
    /\ store = {StoredEntry, SecondEntry}
    /\ loading = TRUE
    /\ accessToken \in {Null, Token(0)}
    /\ isLoggedIn = (accessToken # Null)
    /\ syncTimers = <<>> /\ isSyncing = FALSE
    /\ isSavingRef = FALSE /\ pendingSaveRef = NoEntry /\ lastSavedHash = <<>>
    /\ saveTimeout = NoTimeout /\ entryToDelete = Null
    /\ passes = <<>>
    /\ save = NoTask /\ manual = NoManual /\ del = NoDel
    /\ now = FirstNow /\ logins = 0 /\ cloudEntries = <<>> /\ passCount = 0
    /\ thrown = NoThrown

NextEdit ==
    \/ LoadLocalEntries
    \/ SelectEntry
    \/ HandleUpdateEntry
    \/ SaveTimerFires
    \/ SaveLocalDone
    \/ SaveRemoteDone

SpecEdit == InitEdit /\ [][NextEdit]_vars

(***************************************************************************)
(* Edits and deletes while a pass is in flight: the pass merges into the   *)
(* entries of the render it was started in.  The autosave timer an edit    *)
(* arms is followed in the save specification, not here.                   *)
(***************************************************************************)
NextStale ==
    \/ LoadLocalEntries
    \/ SyncButton
    \/ PassReturns
    \/ PassFails
    \/ HandleUpdateEntry
    \/ HandleRequestDelete
    \/ ConfirmDelete
    \/ DeleteRemoteDone
    \/ DeleteLocalDone

SpecStale == InitSave /\ [][NextStale]_vars

(***************************************************************************)
(* The download specification: one fetchAllEntriesFromDrive call against a *)
(* remote store that uploads have filled.                                  *)
(***************************************************************************)
StrHappy == <<"h", "a", "p", "p", "y">>

\* Titles: none, plain, with an underscore, with a character the file name
\* cannot hold.
RoundTripTitles == {<<>>, <<"a">>, <<"a", "_", "b">>, <<"a", "/">>}

\* Bodies: plain, starting with a blank line, lines that look like the header
\* or like the attachments block, a line of dashes.
RoundTripBodies ==
    {StrHi,
     <<"\n">> \o StrHi,
     StrTitleHdr \o <<"z">>,
     StrMoodHdr \o <<"z">>,
     StrDateHdr \o <<"z">>,
     StrHi \o <<"\n">> \o StrAttachHdr \o <<"z">>,
     StrHi \o <<"\n">> \o StrDashes \o <<"\n">> \o StrHi}

RoundTripEntries ==
    {[NoEntry EXCEPT !.id = IdLocal, !.title = t, !.content = c, !.mood = m] :
        t \in RoundTripTitles, c \in RoundTripBodies, m \in {Null, StrHappy}}
    \cup {[NoEntry EXCEPT !.id = IdLocal, !.title = <<"a">>, !.content = StrHi,
                          !.images = <<Image(<<"7">>, "QUJD")>>]}

\* The text record a failure-free upload of the entry leaves under folderId.
SerializedFile(n, e, folderId) ==
    [NewFile(DriveId(n), DesiredFileName(e.title), folderId, TextMime, e.id)
        EXCEPT !.text = FileContent(e), !.modifiedTime = e.updatedAt]

\* The remote store after a failure-free upload of e into a wiped store.
UploadedStore(e) ==
    {NewFile(DriveId(1), APP_FOLDER_NAME, Null, FolderMime, Null),
     NewFile(DriveId(2), DateFolderName(e.createdAt), DriveId(1), FolderMime, Null),
     SerializedFile(3, e, DriveId(2))}
    \cup (IF e.images = <<>> THEN {}
          ELSE {NewFile(DriveId(4), StrImages, DriveId(2), FolderMime, Null)}
               \cup {[NewFile(DriveId(4 + k), ImageFileName(e.images[k]), DriveId(4),
                               e.images[k].mimeType, e.id)
                         EXCEPT !.bytes = Atob(e.images[k].data)] :
                        k \in 1..Len(e.images)})

\* One entry more than a page holds, all of one day.
PagedEntries ==
    {[NoEntry EXCEPT !.id = LocalId(k), !.title = <<"p", DigitChar(k)>>,
                     !.content = StrHi] : k \in 1..(PageSize + 1)}

PagedStore ==
    {NewFile(DriveId(1), APP_FOLDER_NAME, Null, FolderMime, Null),
     NewFile(DriveId(2), DateFolderName(0), DriveId(1), FolderMime, Null)}
    \cup {SerializedFile(10 + k,
                         CHOOSE e \in PagedEntries : e.id = LocalId(k), DriveId(2)) :
             k \in 1..(PageSize + 1)}

\* A store in which a text record lies one level below a day folder.
NestedStore ==
    {NewFile(DriveId(1), APP_FOLDER_NAME, Null, FolderMime, Null),
     NewFile(DriveId(2), DateFolderName(0), DriveId(1), FolderMime, Null),
     NewFile(DriveId(3), StrX, DriveId(2), FolderMime, Null),
     [NewFile(DriveId(4), StrNotesTxt, DriveId(3), TextMime, Null) EXCEPT !.text = StrHi]}

FetchStores ==
    {{}, PagedStore, RootLegacyStore, NestedStore}
        \cup {UploadedStore(e) : e \in RoundTripEntries}

InitFetch ==
    /\ files \in FetchStores
    /\ nextId = 20
    /\ up = IdleUp /\ last = NoLast /\ fetched = NoFetch /\ syncs = 0
    /\ dl = IdleDl /\ other = IdleUp /\ serverNow = 0
    /\ AppIdle

NextFetch ==
    \/ FetchStart
    \/ FetchFindRoot
    \/ FetchCreateRoot
    \/ FetchListFolders
    \/ FetchListText
    \/ FetchFindImages
    \/ FetchListImages
    \/ FetchDownloadText
    \/ FetchDownloadImages

SpecFetch == InitFetch /\ [][NextFetch]_vars

(***************************************************************************)
(* The life of one entry: edits, uploads and passes, one after the other,  *)
(* while the days go by.                                                   *)
(***************************************************************************)
\* The largest value of the remote store's clock.
MaxServerNow == 2

\* The entry createNewEntry made on the first day, with a first line typed.
CycleEntry == [NoEntry EXCEPT !.id = IdLocal, !.content = StrHi]

InitCycle ==
    /\ files = {} /\ nextId = 4 /\ up = IdleUp /\ last = NoLast
    /\ fetched = NoFetch /\ syncs = 0
    /\ dl = IdleDl /\ other = IdleUp /\ serverNow = 0
    /\ entries = <<>> /\ store = {CycleEntry} /\ activeEntry = NoEntry
    /\ accessToken = Null /\ isLoggedIn = FALSE /\ isSyncing = FALSE
    /\ isSavingRef = FALSE /\ pendingSaveRef = NoEntry /\ lastSavedHash = <<>>
    /\ saveTimeout = NoTimeout /\ entryToDelete = Null /\ loading = FALSE
    /\ syncTimers = <<>> /\ passes = <<>>
    /\ save = NoTask /\ manual = NoManual /\ del = NoDel
    /\ now = 0 /\ logins = 0 /\ cloudEntries = <<>> /\ passCount = 0
    /\ thrown = NoThrown

\* Time passes between two calls.
ServerTick ==
    /\ up.pc = "idle" /\ dl.pc = "idle"
    /\ serverNow < MaxServerNow
    /\ serverNow' = serverNow + 1
    /\ UNCHANGED <<files, nextId, up, last, fetched, syncs, dl, other, appVars>>

\* handleUpdateEntry and the saveEntry of performSave: the edited entry,
\* stamped with the time of the edit, is stored.
CycleEdit ==
    /\ up.pc = "idle" /\ dl.pc = "idle"
    /\ \E e \in store : \E title \in EditorTitles \ {e.title} :
         store' = Put(store, [e EXCEPT !.title = title, !.updatedAt = serverNow])
    /\ UNCHANGED <<entries, activeEntry, accessToken, isLoggedIn, isSyncing, isSavingRef,
                   pendingSaveRef, lastSavedHash, saveTimeout, entryToDelete, loading,
                   syncTimers, passes, save, manual, del, now, logins, cloudEntries,
                   passCount, thrown, remoteVars>>

\* performSave / confirmManualSave: syncEntryToDrive on a stored entry.
CycleUpload ==
    /\ up.pc = "idle" /\ dl.pc = "idle"
    /\ syncs < MaxSyncs
    /\ syncs' = syncs + 1
    /\ \E e \in store : up' = StartedUp(e, files)
    /\ UNCHANGED <<files, nextId, last, fetched, restVars, appVars>>

\* handleCloudSync is called while no upload runs.
CyclePass ==
    /\ up.pc = "idle"
    /\ FetchStart

\* handleCloudSync after its await, called with the entries of the store:
\* the merge writes the remote versions that win to the store.
CycleMerge ==
    /\ dl.pc = "done"
    /\ dl' = IdleDl
    /\ IF dl.result = "ok"
       THEN \E snap \in Orders(store) : store' = Merge(snap, dl.allEntries, store).st
       ELSE UNCHANGED store
    /\ UNCHANGED <<entries, activeEntry, accessToken, isLoggedIn, isSyncing, isSavingRef,
                   pendingSaveRef, lastSavedHash, saveTimeout, entryToDelete, loading,
                   syncTimers, passes, save, manual, del, now, logins, cloudEntries,
                   passCount, thrown, files, nextId, up, last, fetched, syncs, other,
                   serverNow>>

NextCycle ==
    \/ ServerTick
    \/ CycleEdit
    \/ CycleUpload
    \/ CyclePass
    \/ CycleMerge
    \/ GetAppFolderFind
    \/ GetAppFolderCreate
    \/ FindDateFolder
    \/ CreateDateFolder
    \/ StrategyA
    \/ StrategyCName
    \/ StrategyCNotes
    \/ StrategyCOldName
    \/ UpdateContent
    \/ PatchMetadata
    \/ CreateMetadata
    \/ UploadNewContent
    \/ SyncReturn
    \/ FetchFindRoot
    \/ FetchCreateRoot
    \/ FetchListFolders
    \/ FetchListText
    \/ FetchFindImages
    \/ FetchDownloadText

SpecCycle == InitCycle /\ [][NextCycle]_vars

(***************************************************************************)
(* Overlapping calls: two uploads of one entry and a reconciliation pass   *)
(* against a remote store that starts empty.  No lock is held across the   *)
(* awaits, so the event loop runs the continuation of any of them next.    *)
(***************************************************************************)
\* The entry both uploads are called with: one line of text and one image.
RaceEntry ==
    [NoEntry EXCEPT !.id = IdLocal, !.content = StrHi,
                    !.images = <<Image(<<"7">>, "QUJD")>>]

InitRace ==
    /\ files = {} /\ nextId = 4 /\ up = IdleUp /\ last = NoLast
    /\ fetched = NoFetch /\ syncs = 0
    /\ dl = IdleDl /\ other = IdleUp /\ serverNow = 0
    /\ entries = <<>> /\ store = {RaceEntry} /\ activeEntry = NoEntry
    /\ accessToken = Null /\ isLoggedIn = FALSE /\ isSyncing = FALSE
    /\ isSavingRef = FALSE /\ pendingSaveRef = NoEntry /\ lastSavedHash = <<>>
    /\ saveTimeout = NoTimeout /\ entryToDelete = Null /\ loading = FALSE
    /\ syncTimers = <<>> /\ passes = <<>>
    /\ save = NoTask /\ manual = NoManual /\ del = NoDel
    /\ now = 0 /\ logins = 0 /\ cloudEntries = <<>> /\ passCount = 0
    /\ thrown = NoThrown

\* performSave (autosave) or confirmManualSave calls syncEntryToDrive on the
\* entry, whether or not the other of the two is in the middle of its call.
RaceUpload ==
    /\ up.pc = "idle"
    /\ syncs < MaxSyncs
    /\ syncs' = syncs + 1
    /\ up' = StartedUp(RaceEntry, files)
    /\ UNCHANGED <<files, nextId, last, fetched, restVars, appVars>>

\* The call in up reaches an await and the event loop goes on with the other
\* call: the next pipeline steps are the other call's.
SwitchRun ==
    /\ up # other
    /\ up' = other
    /\ other' = up
    /\ UNCHANGED <<files, nextId, last, fetched, syncs, dl, serverNow, appVars>>

NextRace ==
    \/ RaceUpload
    \/ SwitchRun
    \/ GetAppFolderFind
    \/ GetAppFolderCreate
    \/ FindDateFolder
    \/ CreateDateFolder
    \/ StrategyA
    \/ StrategyCName
    \/ StrategyCNotes
    \/ StrategyCOldName
    \/ UpdateContent
    \/ PatchMetadata
    \/ CreateMetadata
    \/ UploadNewContent
    \/ FindImagesFolder
    \/ CreateImagesFolder
    \/ ImageFind
    \/ ImageCreateMetadata
    \/ ImageUploadContent
    \/ SyncReturn

SpecRace == InitRace /\ [][NextRace]_vars

(***************************************************************************)
(* Identity resolution: one upload against stores that hold untagged       *)
(* records under several names.                                            *)
(***************************************************************************)
\* The file name confirmManualSave recorded on the entry before its title was
\* changed.
StrOldTitleTxt == <<"o", "l", "d", ".", "t", "x", "t">>

\* The entries of the upload: created on the first day, with or without a
\* recorded file name.
ResolveEntries ==
    {[NoEntry EXCEPT !.id = IdLocal, !.content = StrHi, !.driveFileName = n] :
        n \in {Null, StrOldTitleTxt}}

\* The day folder of the store holds untagged text files with these names.
NamedStore(names) ==
    {NewFile(DriveId(1), APP_FOLDER_NAME, Null, FolderMime, Null),
     NewFile(DriveId(2), DateFolderName(0), DriveId(1), FolderMime, Null)}
    \cup {NewFile(DriveId(2 + k), names[k], DriveId(2), TextMime, Null) :
             k \in 1..Len(names)}

ResolveStores ==
    {{}, NamedStore(<<>>), NamedStore(<<StrNotesTxt>>),
     NamedStore(<<OldName(IdLocal)>>),
     NamedStore(<<StrNotesTxt, OldName(IdLocal)>>),
     NamedStore(<<StrOldTitleTxt>>),
     NamedStore(<<DesiredFileName(<<>>), StrOldTitleTxt>>)}

InitResolve ==
    /\ files \in ResolveStores
    /\ nextId = 5
    /\ up = IdleUp /\ last = NoLast /\ fetched = NoFetch /\ syncs = 0
    /\ dl = IdleDl /\ other = IdleUp /\ serverNow = 0
    /\ AppIdle

\* confirmManualSave / performSave call syncEntryToDrive.
ResolveStart ==
    /\ up.pc = "idle"
    /\ syncs < MaxSyncs
    /\ syncs' = syncs + 1
    /\ \E e \in ResolveEntries : up' = StartedUp(e, files)
    /\ UNCHANGED <<files, nextId, last, fetched, restVars, appVars>>

NextResolve ==
    \/ ResolveStart
    \/ GetAppFolderFind
    \/ GetAppFolderCreate
    \/ FindDateFolder
    \/ CreateDateFolder
    \/ StrategyA
    \/ StrategyCName
    \/ StrategyCNotes
    \/ StrategyCOldName
    \/ UpdateContent
    \/ PatchMetadata
    \/ CreateMetadata
    \/ UploadNewContent
    \/ SyncReturn

SpecResolve == InitResolve /\ [][NextResolve]_vars

(***************************************************************************)
(* Imports: passes and uploads against stores that hold a record without   *)
(* the entryId property, or two records of one entry.                      *)
(***************************************************************************)
\* A store whose day folder holds a text file written without the property
\* and modified on the next day.
ImportStore ==
    {NewFile(DriveId(1), APP_FOLDER_NAME, Null, FolderMime, Null),
     NewFile(DriveId(2), DateFolderName(0), DriveId(1), FolderMime, Null),
     [NewFile(DriveId(3), StrX \o StrDotTxt, DriveId(2), TextMime, Null)
        EXCEPT !.text = StrHi, !.modifiedTime = TicksPerDay]}

\* The store two overlapping uploads of CycleEntry leave when the clock ticks
\* between their writes: two records of the entry in its day folder.
DuplicateStore ==
    {NewFile(DriveId(1), APP_FOLDER_NAME, Null, FolderMime, Null),
     NewFile(DriveId(2), DateFolderName(0), DriveId(1), FolderMime, Null)}
    \cup {[SerializedFile(2 + t, CycleEntry, DriveId(2)) EXCEPT !.modifiedTime = t] :
             t \in 1..2}

InitImport ==
    /\ \E pair \in {<<{}, {CycleEntry}>>, <<ImportStore, {}>>,
                      <<DuplicateStore, {CycleEntry}>>} :
         files = pair[1] /\ store = pair[2]
    /\ nextId = 5 /\ up = IdleUp /\ last = NoLast
    /\ fetched = NoFetch /\ syncs = 0
    /\ dl = IdleDl /\ other = IdleUp /\ serverNow = 0
    /\ entries = <<>> /\ activeEntry = NoEntry
    /\ accessToken = Null /\ isLoggedIn = FALSE /\ isSyncing = FALSE
    /\ isSavingRef = FALSE /\ pendingSaveRef = NoEntry /\ lastSavedHash = <<>>
    /\ saveTimeout = NoTimeout /\ entryToDelete = Null /\ loading = FALSE
    /\ syncTimers = <<>> /\ passes = <<>>
    /\ save = NoTask /\ manual = NoManual /\ del = NoDel
    /\ now = 0 /\ logins = 0 /\ cloudEntries = <<>> /\ passCount = 0
    /\ thrown = NoThrown

NextImport ==
    \/ CycleUpload
    \/ CyclePass
    \/ CycleMerge
    \/ GetAppFolderFind
    \/ GetAppFolderCreate
    \/ FindDateFolder
    \/ CreateDateFolder
    \/ StrategyA
    \/ StrategyB
    \/ StrategyCName
    \/ StrategyCNotes
    \/ StrategyCOldName
    \/ UpdateContent
    \/ PatchMetadata
    \/ CreateMetadata
    \/ UploadNewContent
    \/ SyncReturn
    \/ FetchFindRoot
    \/ FetchCreateRoot
    \/ FetchListFolders
    \/ FetchListText
    \/ FetchFindImages
    \/ FetchDownloadText

SpecImport == InitImport /\ [][NextImport]_vars

(***************************************************************************)
(* The fan-out of a pass: fetchAllEntriesFromDrive with one callback per   *)
(* day folder, all started by Promise.all, and one download per related    *)
(* image, all started by the inner Promise.all.  A download is in flight   *)
(* from the step that issues it to the step that answers it.  The stores   *)
(* hold fewer files than a page of a listing, so a listing is whole.       *)
(***************************************************************************)
\* "process N remote objects in parallel, N small, e.g. 5"
MaxInFlight == 5

\* A root with MaxInFlight + 1 day folders, one untagged text record in each.
FanOutStore ==
    {NewFile(DriveId(1), APP_FOLDER_NAME, Null, FolderMime, Null)}
    \cup {NewFile(DriveId(10 + k), DateFolderName(k * TicksPerDay), DriveId(1),
                  FolderMime, Null) : k \in 0..MaxInFlight}
    \cup {[NewFile(DriveId(20 + k), StrX \o StrDotTxt, DriveId(10 + k), TextMime, Null)
             EXCEPT !.text = StrHi] : k \in 0..MaxInFlight}

\* A root with one day folder: one record and MaxInFlight + 1 images of it.
AttachmentStore ==
    {NewFile(DriveId(1), APP_FOLDER_NAME, Null, FolderMime, Null),
     NewFile(DriveId(2), DateFolderName(0), DriveId(1), FolderMime, Null),
     [NewFile(DriveId(3), StrX \o StrDotTxt, DriveId(2), TextMime, IdLocal)
        EXCEPT !.text = StrHi],
     NewFile(DriveId(4), StrImages, DriveId(2), FolderMime, Null)}
    \cup {[NewFile(DriveId(30 + k), StrImageDash \o <<DigitChar(k), ".", "png">>,
                   DriveId(4), PngMime, IdLocal)
             EXCEPT !.bytes = <<"bytes", "QQ==">>] : k \in 0..MaxInFlight}

\* The callback of one day folder, before its first call.
StartedTask ==
    [pc |-> "listText", textFiles |-> {}, imagesFolderId |-> Null, imageFiles |-> {},
     tf |-> Null, partial |-> NoEntry, pending |-> {}, entryImages |-> <<>>]

\* Promise.all(dateFolders.map(async (folder) => ...)): every callback runs
\* up to its first await; no folder, and Promise.all resolves at once.
FanOut(d, folders) ==
    [pc |-> IF folders = {} THEN "done" ELSE "fanOut",
     result |-> IF folders = {} THEN "ok" ELSE "none", kind |-> "none",
     rootId |-> d.rootId, allEntries |-> <<>>,
     tasks |-> [f \in folders |-> StartedTask]]

\* A driveFetch of a callback threw: Promise.all rejects, the function logs
\* and rethrows.  What the other callbacks do from then on is read by nobody
\* and is left out.
Rejected(d, status) ==
    [FetchThrows(d, status) EXCEPT !.tasks = [f \in {} |-> StartedTask]]

\* for (const tf of textFiles): the download of the next text file is issued,
\* or the callback returns.
NextDownloads(t) ==
    LET clean == [t EXCEPT !.tf = Null, !.partial = NoEntry, !.pending = {},
                           !.entryImages = <<>>]
    IN  IF t.textFiles = {} THEN {[clean EXCEPT !.pc = "finished"]}
        ELSE {[clean EXCEPT !.pc = "text", !.tf = id, !.textFiles = @ \ {id}] :
                 id \in t.textFiles}

\* Promise.all resolves when the last callback has returned.
Settled(d) ==
    IF \A f \in DOMAIN d.tasks : d.tasks[f].pc = "finished"
    THEN [d EXCEPT !.pc = "done", !.result = "ok"]
    ELSE d

\* 1. Get Date Folders, 2. Parallel Process Folders.
FanOutListFolders ==
    /\ dl.pc = "listFolders"
    /\ \E status \in Statuses :
         dl' = IF driveFetch(status) = "ok"
               THEN FanOut(dl, {f.id : f \in {g \in files : /\ g.parent = dl.rootId
                                                          /\ g.mimeType = FolderMime}})
               ELSE FetchThrows(dl, status)
    /\ UNCHANGED <<files, nextId, up, last, fetched, syncs, other, serverNow, appVars>>

\* Get Text Files, in the callback of one folder.
TaskListText ==
    /\ dl.pc = "fanOut"
    /\ \E folder \in DOMAIN dl.tasks, status \in Statuses :
         /\ dl.tasks[folder].pc = "listText"
         /\ dl' = IF driveFetch(status) = "ok"
                  THEN [dl EXCEPT !.tasks[folder] =
                          [@ EXCEPT !.pc = "findImages",
                                    !.textFiles = {f.id : f \in {g \in files :
                                                     /\ g.parent = folder
                                                     /\ g.mimeType = TextMime}}]]
                  ELSE Rejected(dl, status)
    /\ UNCHANGED <<files, nextId, up, last, fetched, syncs, other, serverNow, appVars>>

\* Get Image Files (if any): findByName('images', folder.id, folder); with no
\* images folder the loop over the text files starts.
TaskFindImages ==
    /\ dl.pc = "fanOut"
    /\ \E folder \in DOMAIN dl.tasks, status \in Statuses :
         /\ dl.tasks[folder].pc = "findImages"
         /\ IF driveFetch(status) = "ok"
            THEN \E r \in findByName(files, StrImages, folder, IsFolderQ) :
                   IF r # Null
                   THEN dl' = [dl EXCEPT !.tasks[folder] =
                                 [@ EXCEPT !.pc = "listImages", !.imagesFolderId = r]]
                   ELSE \E t \in NextDownloads(dl.tasks[folder]) :
                          dl' = Settled([dl EXCEPT !.tasks[folder] = t])
            ELSE dl' = Rejected(dl, status)
    /\ UNCHANGED <<files, nextId, up, last, fetched, syncs, other, serverNow, appVars>>

\* The files of the images folder; then the loop over the text files starts.
TaskListImages ==
    /\ dl.pc = "fanOut"
    /\ \E folder \in DOMAIN dl.tasks, status \in Statuses :
         /\ dl.tasks[folder].pc = "listImages"
         /\ IF driveFetch(status) = "ok"
            THEN \E t \in NextDownloads(
                            [dl.tasks[folder] EXCEPT !.imageFiles =
                               {f.id : f \in {g \in files :
                                   /\ g.parent = dl.tasks[folder].imagesFolderId
                                   /\ g.mimeType # FolderMime}}]) :
                   dl' = Settled([dl EXCEPT !.tasks[folder] = t])
            ELSE dl' = Rejected(dl, status)
    /\ UNCHANGED <<files, nextId, up, last, fetched, syncs, other, serverNow, appVars>>

\* downloadText answers: the record is parsed and the downloads of all its
\* related images are issued together; with none the entry is pushed.  A
\* rejected fetch is caught and the record skipped.
TaskDownloadText ==
    /\ dl.pc = "fanOut"
    /\ \E folder \in DOMAIN dl.tasks, status \in DownloadAnswers :
         LET t == dl.tasks[folder] IN
         /\ t.pc = "text"
         /\ IF status = NoResponse
            THEN \E n \in NextDownloads(t) : dl' = Settled([dl EXCEPT !.tasks[folder] = n])
            ELSE LET tf == ById(files, t.tf)
                     partial == parseJournalText(downloadText(tf, status), tf)
                     relatedImages ==
                         RelatedImages({f \in files : f.id \in t.imageFiles}, partial.id)
                 IN  IF relatedImages = {}
                     THEN \E n \in NextDownloads(t) :
                            dl' = Settled([dl EXCEPT !.tasks[folder] = n,
                                                     !.allEntries = Append(@, partial)])
                     ELSE dl' = [dl EXCEPT !.tasks[folder] =
                                   [t EXCEPT !.pc = "images", !.partial = partial,
                                             !.pending = {f.id : f \in relatedImages}]]
    /\ UNCHANGED <<files, nextId, up, last, fetched, syncs, other, serverNow, appVars>>

\* One downloadImageAsBase64 answers: its image is pushed to entryImages;
\* after the last one the entry is pushed to allEntries.  A rejected fetch
\* rejects the inner Promise.all and the record is skipped.
TaskDownloadImage ==
    /\ dl.pc = "fanOut"
    /\ \E folder \in DOMAIN dl.tasks, status \in DownloadAnswers :
         LET t == dl.tasks[folder] IN
         /\ t.pc = "images"
         /\ \E id \in t.pending :
              IF status = NoResponse
              THEN \E n \in NextDownloads(t) :
                     dl' = Settled([dl EXCEPT !.tasks[folder] = n])
              ELSE LET f == ById(files, id)
                       entryImages ==
                           Append(t.entryImages,
                                  [id |-> f.id, data |-> downloadImageAsBase64(f, status),
                                   mimeType |-> f.mimeType])
                   IN  IF t.pending = {id}
                       THEN \E n \in NextDownloads(t) :
                              dl' = Settled([dl EXCEPT !.tasks[folder] = n,
                                               !.allEntries =
                                                   Append(@, [t.partial EXCEPT
                                                                !.images = entryImages])])
                       ELSE dl' = [dl EXCEPT !.tasks[folder] =
                                     [t EXCEPT !.pending = @ \ {id},
                                               !.entryImages = entryImages]]
    /\ UNCHANGED <<files, nextId, up, last, fetched, syncs, other, serverNow, appVars>>

\* The text downloads of the pass that are in flight.
TextDownloadsInFlight ==
    IF dl.pc = "fanOut"
    THEN Cardinality({f \in DOMAIN dl.tasks : dl.tasks[f].pc = "text"})
    ELSE 0

\* The most image downloads of one record that are in flight.
ImageDownloadsInFlight ==
    IF dl.pc = "fanOut" /\ \E f \in DOMAIN dl.tasks : dl.tasks[f].pc = "images"
    THEN CHOOSE n \in 1..Cardinality(files) :
           /\ \E f \in DOMAIN dl.tasks : Cardinality(dl.tasks[f].pending) = n
           /\ \A f \in DOMAIN dl.tasks : Cardinality(dl.tasks[f].pending) <= n
    ELSE 0

InitFanOut ==
    /\ files \in {{}, FanOutStore, AttachmentStore}
    /\ nextId = 40
    /\ up = IdleUp /\ last = NoLast /\ fetched = NoFetch /\ syncs = 0
    /\ dl = IdleDl /\ other = IdleUp /\ serverNow = 0
    /\ AppIdle

NextFanOut ==
    \/ FetchStart
    \/ FetchFindRoot
    \/ FetchCreateRoot
    \/ FanOutListFolders
    \/ TaskListText
    \/ TaskFindImages
    \/ TaskListImages
    \/ TaskDownloadText
    \/ TaskDownloadImage

SpecFanOut == InitFanOut /\ [][NextFanOut]_vars

(***************************************************************************)
(* deleteEntryFromDrive, one action per awaited remote call.  The call's   *)
(* locals are kept in the variable other.                                  *)
(***************************************************************************)
\* Two entries of the first day, both untitled: A has an image, B was never
\* uploaded.
EntryA ==
    [NoEntry EXCEPT !.id = IdLocal, !.content = StrHi,
                    !.images = <<Image(<<"7">>, "QUJD")>>]
EntryB == [NoEntry EXCEPT !.id = LocalId(2), !.content = StrHi]

\* The entry a pass imports from the untagged notes.txt of LegacyStore.
EntryImported == [NoEntry EXCEPT !.id = IdImported, !.content = StrHi]

\* The remote store and the entry deleteEntryFromDrive is called with.
DeleteInputs ==
    {<<UploadedStore(EntryA), EntryA>>, <<UploadedStore(EntryA), EntryB>>,
     <<UploadedStore(EntryB), EntryB>>, <<UploadedStore(EntryB), EntryA>>,
     <<LegacyStore, EntryImported>>, <<LegacyStore, EntryB>>,
     <<ImportStore, EntryImported>>, <<ImportStore, EntryB>>,
     <<DuplicateStore, CycleEntry>>, <<RootLegacyStore, EntryA>>, <<{}, EntryB>>}
    \cup {<<PagedStore, e>> : e \in PagedEntries}

NoRemoteDelete ==
    [pc |-> "idle", entry |-> NoEntry, target |-> Null, rootId |-> Null,
     dateFolderId |-> Null, k |-> 1, result |-> "none",
     \* history of the call, not read by the code:
     deleted |-> {}, filesAtStart |-> {}]

\* A driveFetch of the call threw on a response of this kind.
DeleteThrows(d, kind) == [d EXCEPT !.pc = "done", !.result = DeleteCatch(kind)]

\* const namesToCheck = [`${safeTitle}.txt`, `entry-${entry.id}.txt`, 'notes.txt']
NamesToCheck(e) == <<DesiredFileName(e.title), OldName(e.id), StrNotesTxt>>

\* The files the property query of the delete matches: every file that
\* carries the entryId, whatever its type and folder.
DeleteByPropertyMatches(fs, id) == {f \in fs : f.entryId = id}

DeleteStart ==
    /\ other.pc = "idle"
    /\ other' = [other EXCEPT !.pc = "byProperty", !.filesAtStart = files]
    /\ UNCHANGED <<files, nextId, up, last, fetched, syncs, dl, serverNow, appVars>>

\* 1. Try by Property; 2. Try by ID when the entry's id looks like a file id.
DeleteByProperty ==
    /\ other.pc = "byProperty"
    /\ \E status \in Statuses :
         IF driveFetch(status) = "ok"
         THEN LET m == DeleteByPropertyMatches(files, other.entry.id) IN
              IF m # {}
              THEN \E f \in m : other' = [other EXCEPT !.pc = "delete", !.target = f.id]
              ELSE other' = IF IsDriveId(other.entry.id)
                            THEN [other EXCEPT !.pc = "delete", !.target = other.entry.id]
                            ELSE [other EXCEPT !.pc = "findRoot"]
         ELSE other' = DeleteThrows(other, driveFetch(status))
    /\ UNCHANGED <<files, nextId, up, last, fetched, syncs, dl, serverNow, appVars>>

\* DELETE files/{id}, then return.  A file that is not there is answered 404.
DeleteFile ==
    /\ other.pc = "delete"
    /\ \E status \in Statuses :
         IF driveFetch(status) = "ok"
         THEN IF \E f \in files : f.id = other.target
              THEN /\ files' = {f \in files : f.id # other.target}
                   /\ other' = [other EXCEPT !.pc = "done", !.result = "return",
                                  !.deleted = @ \cup {ById(files, other.target)}]
              ELSE /\ other' = DeleteThrows(other, "error")
                   /\ UNCHANGED files
         ELSE /\ other' = DeleteThrows(other, driveFetch(status))
              /\ UNCHANGED files
    /\ UNCHANGED <<nextId, up, last, fetched, syncs, dl, serverNow, appVars>>

\* 3. Try by Name: getAppFolderId, findByName(APP_FOLDER_NAME, null, folder)
DeleteFindRoot ==
    /\ other.pc = "findRoot"
    /\ \E status \in Statuses :
         IF driveFetch(status) = "ok"
         THEN \E r \in findByName(files, APP_FOLDER_NAME, Null, IsFolderQ) :
                other' = [other EXCEPT !.rootId = r,
                            !.pc = IF r = Null THEN "createRoot" ELSE "findDate"]
         ELSE other' = DeleteThrows(other, driveFetch(status))
    /\ UNCHANGED <<files, nextId, up, last, fetched, syncs, dl, serverNow, appVars>>

\* getAppFolderId: createFolder(APP_FOLDER_NAME, null) when none was found.
DeleteCreateRoot ==
    /\ other.pc = "createRoot"
    /\ \E status \in Statuses :
         IF driveFetch(status) = "ok"
         THEN /\ files' = files \cup
                    {NewFile(DriveId(nextId), APP_FOLDER_NAME, Null, FolderMime, Null)}
              /\ nextId' = nextId + 1
              /\ other' = [other EXCEPT !.rootId = DriveId(nextId), !.pc = "findDate"]
         ELSE /\ other' = DeleteThrows(other, driveFetch(status))
              /\ UNCHANGED <<files, nextId>>
    /\ UNCHANGED <<up, last, fetched, syncs, dl, serverNow, appVars>>

\* findByName(dateFolderName, rootId, folder); without a day folder the call
\* returns.
DeleteFindDateFolder ==
    /\ other.pc = "findDate"
    /\ \E status \in Statuses :
         IF driveFetch(status) = "ok"
         THEN \E r \in findByName(files, DateFolderName(other.entry.createdAt),
                                  other.rootId, IsFolderQ) :
                other' = IF r = Null
                         THEN [other EXCEPT !.pc = "done", !.result = "return"]
                         ELSE [other EXCEPT !.dateFolderId = r, !.pc = "byName", !.k = 1]
         ELSE other' = DeleteThrows(other, driveFetch(status))
    /\ UNCHANGED <<files, nextId, up, last, fetched, syncs, dl, serverNow, appVars>>

\* for (const name of namesToCheck): findByName(name, dateFolderId, text)
DeleteFindByName ==
    /\ other.pc = "byName"
    /\ \E status \in Statuses :
         IF driveFetch(status) = "ok"
         THEN \E r \in findByName(files, NamesToCheck(other.entry)[other.k],
                                  other.dateFolderId, IsTextQ) :
                other' = IF r # Null
                         THEN [other EXCEPT !.pc = "delete", !.target = r]
                         ELSE IF other.k < Len(NamesToCheck(other.entry))
                         THEN [other EXCEPT !.k = @ + 1]
                         ELSE [other EXCEPT !.pc = "done", !.result = "return"]
         ELSE other' = DeleteThrows(other, driveFetch(status))
    /\ UNCHANGED <<files, nextId, up, last, fetched, syncs, dl, serverNow, appVars>>

InitDelete ==
    /\ \E input \in DeleteInputs :
         /\ files = input[1]
         /\ other = [NoRemoteDelete EXCEPT !.entry = input[2]]
    /\ nextId = 20
    /\ up = IdleUp /\ last = NoLast /\ fetched = NoFetch /\ syncs = 0
    /\ dl = IdleDl /\ serverNow = 0
    /\ AppIdle

NextDelete ==
    \/ DeleteStart
    \/ DeleteByProperty
    \/ DeleteFile
    \/ DeleteFindRoot
    \/ DeleteCreateRoot
    \/ DeleteFindDateFolder
    \/ DeleteFindByName

SpecDelete == InitDelete /\ [][NextDelete]_vars

(***************************************************************************)
(* The remote specification: upload calls one after the other, and passes  *)
(***************************************************************************)
Init ==
    /\ files \in {{}, LegacyStore, RootLegacyStore}
    /\ nextId = 4
    /\ up = IdleUp
    /\ last = NoLast
    /\ fetched = NoFetch
    /\ syncs = 0
    /\ dl = IdleDl /\ other = IdleUp /\ serverNow = 0
    /\ AppIdle

Next ==
    \/ StartSync
    \/ GetAppFolderFind
    \/ GetAppFolderCreate
    \/ FindDateFolder
    \/ CreateDateFolder
    \/ StrategyA
    \/ StrategyB
    \/ StrategyCName
    \/ StrategyCNotes
    \/ StrategyCOldName
    \/ UpdateContent
    \/ PatchMetadata
    \/ CreateMetadata
    \/ UploadNewContent
    \/ FindImagesFolder
    \/ CreateImagesFolder
    \/ ImageFind
    \/ ImageCreateMetadata
    \/ ImageUploadContent
    \/ SyncReturn
    \/ FetchAllEntries
    \/ FetchAllFails

Spec == Init /\ [][Next]_vars

(***************************************************************************)
(* Claims about the upload pipeline and the pairing of attachments         *)
(***************************************************************************)
\* The call that is returning and the one before it both ran to "return true"
\* with every remote call answered 2xx.
TwoCleanRuns ==
    /\ up.pc = "done" /\ up.result = "true" /\ ~up.failed
    /\ last.result = "true" /\ ~last.failed

\* C1: when syncEntryToDrive runs twice in a row on the same unchanged entry and
\* no remote call fails, the second run creates no remote object (no folder, no
\* text record, no attachment); and if the store held no text record and no
\* attachment of the entry before the first run, it holds exactly one text
\* record of the entry and exactly one attachment file per image afterwards.
C1_UploadIdempotent ==
    (TwoCleanRuns /\ last.entry = up.entry) =>
        /\ up.created = {}
        /\ last.recordsAtStart = 0 =>
              Cardinality(RecordsOf(files, up.entry.id)) = 1
        /\ last.imagesAtStart = 0 =>
              \A k \in 1..Len(up.entry.images) :
                  Cardinality(AttachmentsOf(files, up.entry.images[k])) = 1

C1_Witness ==
    /\ TwoCleanRuns /\ last.entry = up.entry
    /\ Len(up.entry.images) > 0
    /\ last.recordsAtStart = 0 /\ last.imagesAtStart = 0

\* C2: an entry is uploaded, its title is changed so that the canonical file
\* name changes, and it is uploaded again with the same id and createdAt (no
\* remote call failing): the second upload writes the same remote file as the
\* first, that file then carries the new canonical name, and the second upload
\* creates no text record.
C2_RenameKeepsFile ==
    (/\ TwoCleanRuns
     /\ last.entry.id = up.entry.id
     /\ last.entry.createdAt = up.entry.createdAt
     /\ DesiredFileName(last.entry.title) # DesiredFileName(up.entry.title)) =>
        /\ up.written = last.written
        /\ \E f \in files : /\ f.id = up.written
                            /\ f.name = DesiredFileName(up.entry.title)
        /\ \A f \in files : f.id \in up.created => f.mimeType # TextMime

C2_Witness ==
    /\ TwoCleanRuns
    /\ last.entry.id = up.entry.id
    /\ last.entry.createdAt = up.entry.createdAt
    /\ DesiredFileName(last.entry.title) # DesiredFileName(up.entry.title)
    /\ up.written # Null

\* The attachment files of the store.
Attachments(fs) == {f \in fs : f.mimeType # FolderMime /\ f.mimeType # TextMime}

\* C5: in what a download pass returns, an attachment file is attached to an
\* entry if and only if the attachment's entryId property equals the entry's id.
C5_PairedIffProperty ==
    fetched.result = "ok" =>
        \A e \in fetched.entries : \A img \in Attachments(files) :
            img.id \in e.images <=> img.entryId = e.id

\* C6: once a remote call of a run has been answered 401 or 403, the run issues
\* no further remote call, and it ends by raising the auth error to its caller.
C6_AuthAborts ==
    /\ up.authSeen => ~up.callsAfterAuth
    /\ (up.pc = "done" /\ up.authSeen) => up.result = "throw"

Elems(list) == {list[k] : k \in 1..Len(list)}

\* C3: for a local entry A (updatedAt T1) and the remote version of A
\* (updatedAt T2) a pass was answered with, after the merge the local copy of
\* A, in the list and in the store, is the remote version iff T2 > T1, and is
\* unchanged when T2 <= T1.
C3_MergeRule ==
    [][ Len(passes') < Len(passes) =>
          \A a \in Elems(entries) \cap store : \A c \in Elems(cloudEntries') :
              c.id = a.id =>
                  IF c.updatedAt > a.updatedAt
                  THEN c \in Elems(entries') /\ c \in store'
                       /\ a \notin Elems(entries') /\ a \notin store'
                  ELSE a \in Elems(entries') /\ a \in store'
                       /\ (c # a => c \notin Elems(entries') /\ c \notin store')
      ]_vars

\* C4: a pass never removes or alters an entry that exists locally and has
\* no remote counterpart: it is still in the store and in the list after the
\* merge, whenever the pass was started.
C4_LocalOnlyUntouched ==
    [][ Len(passes') < Len(passes) =>
          \A a \in Elems(entries) \cap store :
              a.id \notin Ids(cloudEntries') => a \in Elems(entries') /\ a \in store'
      ]_vars

\* C7: at every moment at most one run of syncEntryToDrive is outstanding,
\* over autosave, the queued save and the manual save.
C7_OneRemoteSave == ~(save.pc = "remote" /\ manual.pc = "remote")

\* A step in which the save in flight completes (its finally block runs).
SaveCompletes ==
    /\ \/ save.pc = "remote"
       \/ save.pc = "local" /\ save.token = Null
    /\ save' # save

\* C8: a request arriving while a save is in flight takes the one pending
\* slot; when the save in flight completes, however it ended, the retained
\* request is run at once and the slot is emptied.
C8_PendingRunsNext ==
    [][ /\ (saveTimeout.armed /\ ~saveTimeout'.armed /\ pendingSaveRef # NoEntry)
            => pendingSaveRef' = saveTimeout.entry
        /\ (SaveCompletes /\ pendingSaveRef # NoEntry)
            => /\ save'.pc = "local" /\ save'.entry = pendingSaveRef
               /\ pendingSaveRef' = NoEntry
      ]_vars

\* C9: at most one reconciliation pass runs at a time: a request arriving
\* while a pass runs starts no second pass.
C9_OnePassAtATime == Len(passes) <= 1

\* C10: a confirmed deletion made while logged in attempts the remote
\* deletion before the entry leaves the local store, and when the remote
\* deletion failed with another error than the auth error the entry leaves
\* the store and the list all the same.
C10_RemoteFirstBestEffort ==
    [][ /\ (del.pc # "local" /\ del'.pc = "local" /\ del'.token # Null)
            => del'.attempted
        /\ (del.pc = "remote" /\ del'.pc = "local" /\ del'.kind = "error")
            => del.id \notin {x.id : x \in store'}
        /\ (del.pc = "local" /\ del'.pc = "idle" /\ del.kind = "error")
            => del.id \notin Ids(entries')
      ]_vars

\* The same with the entry still in the list when the deletion is confirmed.
C10_FoundRemoteFirst ==
    [][ /\ (del.pc # "local" /\ del'.pc = "local" /\ del'.token # Null /\ del'.found)
            => del'.attempted
        /\ (del.pc = "remote" /\ del'.pc = "local" /\ del'.kind = "error")
            => del.id \notin {x.id : x \in store'}
        /\ (del.pc = "local" /\ del'.pc = "idle" /\ del.kind = "error")
            => del.id \notin Ids(entries')
      ]_vars

\* C11: when the remote deletion of an entry fails with the auth error the
\* whole delete is aborted: the session is invalidated (token cleared, logged
\* out), the entry stays in the local store, and it stays in the entries list
\* when the delete call ends.
C11_AuthAbortsDelete ==
    [][ /\ (del.pc = "remote" /\ del'.pc = "local" /\ del'.kind = "auth")
            => /\ accessToken' = Null /\ ~isLoggedIn'
               /\ store' = store
        /\ (del.pc = "local" /\ del.kind = "auth" /\ del'.pc = "idle")
            => /\ entries' = entries
               /\ del.id \in {x.id : x \in store'}
      ]_vars

\* C12: when the upload of a save made by performSave ends with a remote error
\* that is not the auth error, syncEntryToDrive swallows it (it returns
\* undefined, nothing is raised to performSave and the session stays as it
\* is), and no entry of the local store is deleted or altered by it: every
\* stored entry is still stored, but for the one the queued save writes anew.
C12_RemoteErrorSwallowed ==
    [][ (/\ save.pc = "remote" /\ save'.pc # "remote"
         /\ thrown'.run = "save" /\ thrown'.kind = "error") =>
            /\ thrown'.result = "undefined"
            /\ accessToken' = accessToken /\ isLoggedIn' = isLoggedIn
            /\ \A x \in store :
                  \/ x \in store'
                  \/ /\ save'.pc = "local" /\ save'.entry.id = x.id
                     /\ save'.entry = pendingSaveRef /\ save'.entry \in store'
      ]_vars

C12_Witness ==
    /\ thrown = [run |-> "save", kind |-> "error", result |-> "undefined"]
    /\ isLoggedIn /\ save.pc = "idle"
    /\ \E x \in store : x.id = IdA /\ x.updatedAt > StoredEntry.updatedAt

\* The same inside the pipeline: a run in which a remote call failed, none of
\* them with 401 or 403, does not throw.
C12_SwallowedAtAnyStep ==
    (up.pc = "done" /\ up.failed /\ ~up.authSeen) => up.result \in {"undefined", "true"}

\* C20: whenever a pipeline run ends with the auth error, the orchestrator
\* invalidates the session (the token is dropped and the user logged out):
\* a reconciliation pass, a remote deletion, an autosave upload and a manual
\* upload alike.
C20_AuthInvalidatesSession ==
    [][ /\ (Len(passes') < Len(passes) /\ thrown'.run = "pass" /\ thrown'.kind = "auth")
            => accessToken' = Null /\ ~isLoggedIn'
        /\ (del.pc = "remote" /\ del'.pc = "local" /\ del'.kind = "auth")
            => accessToken' = Null /\ ~isLoggedIn'
        /\ (save.pc = "remote" /\ save'.pc # "remote" /\ thrown'.kind = "auth")
            => accessToken' = Null /\ ~isLoggedIn'
        /\ (manual.pc = "remote" /\ manual'.pc # "remote" /\ thrown'.kind = "auth")
            => accessToken' = Null /\ ~isLoggedIn'
      ]_vars

\* The uploads' half of it, which the save flows keep.
C20_UploadAuthLogsOut ==
    [][ /\ (save.pc = "remote" /\ save'.pc # "remote" /\ thrown'.kind = "auth")
            => accessToken' = Null /\ ~isLoggedIn'
        /\ (manual.pc = "remote" /\ manual'.pc # "remote" /\ thrown'.kind = "auth")
            => accessToken' = Null /\ ~isLoggedIn'
      ]_vars

\* The untagged entry-{id}.txt that lies directly under the root (RootLegacyStore).
RootLegacyFile(fs) ==
    {f \in fs : f.id = DriveId(2) /\ f.mimeType = TextMime}

\* C13: when the only remote text record of an entry is entry-{id}.txt
\* directly under the root folder, without the entryId property, a
\* failure-free upload of that entry finds it, moves it into the entry's day
\* folder, gives it the canonical name and the entryId property, and creates
\* no text record.
C13_LegacyRescue ==
    (/\ up.pc = "done" /\ up.result = "true" /\ ~up.failed
     /\ up.entry.id = IdLocal /\ up.recordsAtStart = 0
     /\ RootLegacyFile(files) # {}) =>
        /\ \A f \in RootLegacyFile(files) :
              /\ f.parent = up.dateFolderId
              /\ f.name = DesiredFileName(up.entry.title)
              /\ f.entryId = IdLocal
        /\ \A g \in files : g.id \in up.created => g.mimeType # TextMime

(***************************************************************************)
(* Claims about the download pass                                          *)
(***************************************************************************)
\* The text records a pass has to return: those of the day folders of the root.
TextRecords(fs, rootId) ==
    {f \in fs : /\ f.mimeType = TextMime
                /\ \E d \in fs : /\ d.id = f.parent /\ d.mimeType = FolderMime
                                  /\ d.parent = rootId}

\* The call has returned allEntries.
FetchReturned == dl.pc = "done" /\ dl.result = "ok"

\* C14: a pass whose listings are answered in pages returns every text
\* record of the remote store as an entry, also when they are more than one
\* page holds (no download failing).
C14_PaginationComplete ==
    (FetchReturned /\ dl.bad = {}) =>
        \A tf \in TextRecords(files, dl.rootId) : ParsedId(tf) \in Ids(dl.allEntries)

\* C15: the entry parsed from the text an entry was serialized to (file name
\* the canonical name, entryId property the entry's id, download answered
\* 2xx) has the entry's title, mood and body, the body up to trailing white
\* space.
C15_RoundTrip ==
    FetchReturned =>
        \A e \in RoundTripEntries :
            (UploadedStore(e) = files /\ DriveId(3) \notin dl.bad) =>
                \E k \in 1..Len(dl.allEntries) :
                    LET x == dl.allEntries[k] IN
                    /\ x.id = e.id
                    /\ x.title = e.title
                    /\ x.mood = e.mood
                    /\ TrimEnd(x.content) = TrimEnd(e.content)

\* C19: a text record whose download failed (answered with a non-2xx status,
\* or not answered) contributes no entry to what the pass returns, and every
\* other listed record contributes its entry.
C19_FailedRecordSkipped ==
    FetchReturned =>
        \A id \in dl.listed :
            IF id \in dl.bad
            THEN ParsedId(ById(files, id)) \notin Ids(dl.allEntries)
            ELSE ParsedId(ById(files, id)) \in Ids(dl.allEntries)

\* C17: after any sequence of edits, uploads and passes of one entry, a pass
\* that replaces the local copy by the remote version (whose createdAt is the
\* remote modification time) included, the remote store holds at most one
\* text record of the entry.
C17_OneRecordPerEntry == Cardinality(RecordsOf(files, IdLocal)) <= 1

\* C16: two runs of the upload pipeline for the same entry that overlap in
\* time, interleaved at any await, never leave two text records of the entry
\* in the remote store.
C16_OverlappingUploadsOneRecord == Cardinality(RecordsOf(files, RaceEntry.id)) <= 1

\* The app root folders of the store, the folders of one day name under a
\* root, and the images folders of one day folder.
RootFolders == {f \in files : f.name = APP_FOLDER_NAME /\ f.parent = Null /\ f.mimeType = FolderMime}
DayFolders(r, d) ==
    {f \in files : f.name = DateFolderName(d * TicksPerDay) /\ f.parent = r /\ f.mimeType = FolderMime}
ImagesFolders(df) ==
    {f \in files : f.name = StrImages /\ f.parent = df /\ f.mimeType = FolderMime}

\* C18: after any interleaving of the calls that ensure the app root folder
\* (uploads and a reconciliation pass, against a store that starts empty) the
\* store holds at most one app root folder, at most one folder per day name
\* under it and at most one images folder per day folder.
C18_OneFolderEach ==
    /\ Cardinality(RootFolders) <= 1
    /\ \A r \in RootFolders : \A d \in Days : Cardinality(DayFolders(r.id, d)) <= 1
    /\ \A f \in files : Cardinality(ImagesFolders(f.id)) <= 1

(***************************************************************************)
(* Claims about the order and the frame of the pipeline's remote calls     *)
(***************************************************************************)
\* The positions of syncEntryToDrive at which the next remote call looks up,
\* writes or creates the text record.
TextRecordSteps ==
    {"strategyA", "strategyB", "strategyCName", "strategyCNotes", "strategyCOld",
     "updateContent", "patchMeta", "createMeta", "createContent"}

\* C21: within one run of the upload pipeline the root folder and the day
\* folder are ensured (their ids are known and the folders exist, the day
\* folder under the root) before any call on the text record is issued, and
\* the metadata patch of the text record is issued only after the content
\* upload of that record has completed.
C21_OrderedSteps ==
    /\ up.pc \in TextRecordSteps =>
         /\ up.rootId # Null /\ up.dateFolderId # Null
         /\ \E r \in files : r.id = up.rootId /\ r.mimeType = FolderMime
         /\ \E d \in files : /\ d.id = up.dateFolderId /\ d.mimeType = FolderMime
                             /\ d.parent = up.rootId
                             /\ d.name = DateFolderName(up.entry.createdAt)
    /\ up.pc = "patchMeta" => up.fileId # Null /\ up.written = up.fileId

\* A run that updated a record has returned true: the content upload and then
\* the metadata patch were answered 2xx.
C21_Witness ==
    /\ up.pc = "done" /\ up.result = "true" /\ ~up.failed
    /\ up.fileId # Null /\ up.written = up.fileId

\* C22: when the pipeline resolves an existing record that is not a child of
\* the entry's day folder (one found by the direct lookup of a remote-native
\* id), it moves the record, so that after a run that returned true with every
\* call answered 2xx the text record written is a child of the day folder
\* computed from createdAt.
C22_RecordUnderDayFolder ==
    (up.pc = "done" /\ up.result = "true" /\ ~up.failed /\ up.written # Null)
        => ById(files, up.written).parent = up.dateFolderId

\* C23: on the update path a metadata patch is issued only if the resolved
\* record's name differs from the canonical name or its entryId property is
\* missing or different from the entry's id: no step issues the metadata PATCH
\* of a record whose name and property are already current.
C23_PatchOnlyWhenStale ==
    [][(up.pc = "patchMeta" /\ up'.pc # "patchMeta")
          => \A f \in files :
               f.id = up.fileId =>
                 \/ f.name # DesiredFileName(up.entry.title)
                 \/ f.entryId # up.entry.id]_vars

\* The ids of the text files with this name in the day folder.
NamedInFolder(fs, name, dateFolderId) ==
    {f.id : f \in {g \in fs : g.name = name /\ g.parent = dateFolderId /\ g.mimeType = TextMime}}

\* The first non-empty set of candidates, in the order given.
FirstMatch(candidates) ==
    IF \A k \in 1..Len(candidates) : candidates[k] = {}
    THEN {Null}
    ELSE candidates[CHOOSE k \in 1..Len(candidates) :
                      /\ candidates[k] # {}
                      /\ \A j \in 1..(k - 1) : candidates[j] = {}]

\* The precedence of the resolution chain as stated: entryId property in the
\* day folder, direct lookup of a remote-native id, recorded file name,
\* canonical name, entry-{id}.txt, notes.txt.
StatedResolution(fs, e, dateFolderId) ==
    FirstMatch(<<
        {f.id : f \in {g \in fs : g.entryId = e.id /\ g.parent = dateFolderId}},
        IF IsDriveId(e.id) THEN {f.id : f \in {g \in fs : g.id = e.id}} ELSE {},
        IF e.driveFileName # Null THEN NamedInFolder(fs, e.driveFileName, dateFolderId) ELSE {},
        NamedInFolder(fs, DesiredFileName(e.title), dateFolderId),
        NamedInFolder(fs, OldName(e.id), dateFolderId),
        NamedInFolder(fs, StrNotesTxt, dateFolderId)>>)

\* C24: the record chosen by identity resolution is the match of the earliest
\* strategy that yields one, in the order: entryId property in the day folder,
\* direct lookup by a remote-native id, the entry's recorded remote file name
\* in the day folder, the canonical name, entry-{id}.txt, notes.txt; when
\* every lookup was answered 2xx the run goes on to update that record, or to
\* create one if no strategy matched.
C24_ResolutionOrder ==
    (up.pc \in {"updateContent", "createMeta"} /\ ~up.failed)
        => up.fileId \in StatedResolution(files, up.entry, up.dateFolderId)

\* The file with this id lies under the folder rootId, at most depth levels down.
RECURSIVE IsUnder(_, _, _, _)
IsUnder(fs, id, rootId, depth) ==
    /\ depth > 0
    /\ \E f \in fs : /\ f.id = id
                     /\ \/ f.parent = rootId
                        \/ (f.parent # Null /\ IsUnder(fs, f.parent, rootId, depth - 1))

\* The deepest nesting of the stores considered.
MaxDepth == 3

\* C25: a pass returns an entry for every text record located anywhere under
\* the app root: directly in the root folder, in a day folder or nested
\* deeper (every call answered 2xx, and no folder holding more text records
\* than one page of a listing).
C25_AllRecordsUnderRoot ==
    (FetchReturned /\ dl.bad = {}) =>
        \A tf \in files :
            (/\ tf.mimeType = TextMime
             /\ IsUnder(files, tf.id, dl.rootId, MaxDepth)
             /\ Cardinality({g \in files : g.parent = tf.parent /\ g.mimeType = TextMime})
                    <= PageSize)
                => ParsedId(tf) \in Ids(dl.allEntries)

(***************************************************************************)
(* Claims about the orchestrator and an invalidated session                *)
(***************************************************************************)
\* C26: if the session is invalidated (logout or auth failure) while the
\* remote requests of a reconciliation pass are in flight, the results of
\* that pass are discarded: the step in which a pass ends while no token is
\* held writes no entry to the local store or to the entries list.
C26_InvalidatedPassDiscarded ==
    [][(Len(passes') < Len(passes) /\ accessToken = Null)
          => (store' = store /\ entries' = entries)]_vars

\* C27: after a save received the auth error and the session was invalidated,
\* no remote upload is started with the invalidated token: no performSave
\* run, the one that was pending behind the failed save included, goes on
\* from its local write to syncEntryToDrive unless its token is the token of
\* the current session.
C27_NoUploadAfterInvalidation ==
    [][(/\ save.pc = "local" /\ save'.pc = "remote"
        /\ thrown.run = "save" /\ thrown.kind = "auth")
          => (accessToken # Null /\ save.token = accessToken)]_vars

(***************************************************************************)
(* Claims about the parser                                                 *)
(***************************************************************************)
\* The title as stated: the file name (without .txt, underscores as spaces)
\* when it is not empty and not a generic legacy name, whatever the header
\* says; else the title of the 'Title:' header line; else 'Untitled'.
StatedTitle(name, text) ==
    LET nameTitle == NameTitle(name) IN
    IF nameTitle # <<>> /\ nameTitle # StrNotes /\ ~StartsWith(nameTitle, StrEntryDash)
    THEN nameTitle
    ELSE ParseLines(SplitLines(text), 1,
                    [title |-> StrUntitled, mood |-> Null, contentLines |-> <<>>,
                     headerEnded |-> FALSE]).title

\* C28: the title the parser produces is the file name's title whenever that
\* name is not empty and not generic, regardless of the 'Title:' header line;
\* the header title is used only when the file name is generic or empty, and
\* 'Untitled' only when neither gives a title (records whose download was
\* answered 2xx).
C28_TitleFromFileName ==
    FetchReturned =>
        \A tf \in files :
            tf.id \in dl.listed \ dl.bad =>
                \E k \in 1..Len(dl.allEntries) :
                    /\ dl.allEntries[k].id = ParsedId(tf)
                    /\ dl.allEntries[k].title = StatedTitle(tf.name, tf.text)

(***************************************************************************)
(* Claims about imported entries                                           *)
(***************************************************************************)
\* Every entry a pass returns carries the entryId property of its record, or
\* the record's file id when the record has no property.
ImportedIds ==
    (dl.pc = "done" /\ dl.result = "ok") =>
        LET idOf(f) == IF f.entryId # Null THEN f.entryId ELSE f.id IN
        /\ Ids(dl.allEntries) \subseteq {idOf(f) : f \in {g \in files : g.id \in dl.listed}}
        /\ \A f \in files : f.id \in dl.listed \ dl.bad => idOf(f) \in Ids(dl.allEntries)

\* A pass answered as the pass that is about to merge, and run right after
\* it, inserts no entry and replaces none.
SecondPassChangesNothing ==
    (dl.pc = "done" /\ dl.result = "ok") =>
        \A snap \in Orders(store) :
            LET m == Merge(snap, dl.allEntries, store) IN
            \A again \in Orders(m.st) : ~Merge(again, dl.allEntries, m.st).hasChanges

\* An upload of an entry whose id is the id of a text file resolves to that
\* file (every call of this run and of the run before it answered 2xx).
ImportedResolves ==
    (/\ up.pc \in {"updateContent", "createMeta"} /\ ~up.failed /\ ~last.failed
     /\ \E f \in files : f.id = up.entry.id /\ f.mimeType = TextMime)
        => up.fileId = up.entry.id

\* C29: an imported entry's id is the record's entryId property when present,
\* else the record's own file id; so a second pass over an unchanged remote
\* store inserts no local entry and replaces none, and a later upload of an
\* entry imported without the property resolves to the file it came from.
C29_StableImportIdentity ==
    /\ ImportedIds
    /\ SecondPassChangesNothing
    /\ ImportedResolves

(***************************************************************************)
(* Claims about the fan-out of a pass                                      *)
(***************************************************************************)
\* C30: during a pass the text-record downloads in flight together never
\* exceed a fixed small number, however many day folders and records there
\* are, and neither do the image downloads in flight for one record.
C30_BoundedFanOut ==
    /\ TextDownloadsInFlight <= MaxInFlight
    /\ ImageDownloadsInFlight <= MaxInFlight

(***************************************************************************)
(* Claims about the local list and store                                   *)
(***************************************************************************)
\* C31: after any creations, deletions and merges no two entries of the
\* entries list, and no two entries of the local store, have the same id,
\* also when a pass returns two remote records of one entry id.
C31_UniqueLocalIds ==
    /\ \A i, j \in 1..Len(entries) : entries[i].id = entries[j].id => i = j
    /\ \A x, y \in store : x.id = y.id => x = y

(***************************************************************************)
(* Claims about the remote delete                                          *)
(***************************************************************************)
\* The remote delete returned without any of its calls throwing.
DeleteCompleted == other.pc = "done" /\ other.result = "return" /\ other.deleted # {}

\* C32: a remote delete that completes without error on an entry that has a
\* remote text record removes that record, and every attachment file tagged
\* with the entry's id is still there.
C32_DeleteKeepsAttachments ==
    (/\ DeleteCompleted
     /\ \E r \in other.filesAtStart : r.mimeType = TextMime /\ r.entryId = other.entry.id)
        => /\ \A r \in other.filesAtStart :
                 (r.mimeType = TextMime /\ r.entryId = other.entry.id) => r \notin files
           /\ \A a \in other.filesAtStart :
                 (a.mimeType \notin {TextMime, FolderMime} /\ a.entryId = other.entry.id)
                     => a \in files

\* C38: the remote delete of B deletes at most one file and never the text
\* record tagged with another entry's id.
C38_DeleteSparesOthers ==
    /\ Cardinality(other.deleted) <= 1
    /\ \A f \in other.deleted :
         ~(f.mimeType = TextMime /\ f.entryId # Null /\ f.entryId # other.entry.id)

(***************************************************************************)
(* Claims about what an upload does to the records of other entries        *)
(***************************************************************************)
\* C33: no step of an upload of entry B changes (overwrites, renames or
\* re-tags) a text record whose entryId property is the id of another entry.
C33_OtherRecordsUntouched ==
    [][\A f \in files :
          (/\ up.pc # "idle"
           /\ f.mimeType = TextMime /\ f.entryId # Null /\ f.entryId # up.entry.id)
              => f \in files']_vars

(***************************************************************************)
(* Claims about attachments across runs                                    *)
(***************************************************************************)
\* C39: when an upload of an entry has completed with every call answered
\* 2xx, every attachment file of the entry in the images folder holds the
\* image's bytes, whatever the earlier runs did.
C39_AttachmentsHoldBytes ==
    (up.pc = "done" /\ up.result = "true" /\ ~up.failed) =>
        \A k \in 1..Len(up.entry.images) :
            \A f \in AttachmentsOf(files, up.entry.images[k]) :
                f.parent = up.imagesFolderId => f.bytes = Atob(up.entry.images[k].data)

(***************************************************************************)
(* Claims about an upload followed by a pass                               *)
(***************************************************************************)
\* The ids of an entry's images, in order.
ImageIds(e) == [k \in 1..Len(e.images) |-> e.images[k].id]

\* C34: when the entry uploaded last is still the stored one and a pass run
\* after that upload merges, the stored entry keeps its title, content, mood,
\* createdAt and the ids of its images.
C34_UploadThenPassKeepsEntry ==
    [][(/\ dl.pc = "done" /\ dl'.pc = "idle"
        /\ last.result = "true" /\ ~last.failed /\ last.entry \in store)
          => \E e \in store' :
                /\ e.id = last.entry.id
                /\ e.title = last.entry.title
                /\ e.content = last.entry.content
                /\ e.mood = last.entry.mood
                /\ e.createdAt = last.entry.createdAt
                /\ ImageIds(e) = ImageIds(last.entry)]_vars

\* C35: when the only remote records of a stored entry are records whose
\* content was never uploaded (the metadata was created, the content upload
\* failed), the merge of a pass leaves the entry's title, content and mood.
C35_EmptyRecordNotMerged ==
    [][(dl.pc = "done" /\ dl'.pc = "idle")
          => \A e \in store :
                (/\ RecordsOf(files, e.id) # {}
                 /\ \A f \in RecordsOf(files, e.id) : f.text = <<>>)
                    => \E e2 \in store' :
                          /\ e2.id = e.id /\ e2.title = e.title
                          /\ e2.content = e.content /\ e2.mood = e.mood]_vars

(***************************************************************************)
(* Claims about the autosave                                               *)
(***************************************************************************)
\* No timer is armed, no save runs and none waits.
SavesSettled ==
    /\ ~loading /\ ~saveTimeout.armed
    /\ save.pc = "idle" /\ ~isSavingRef /\ pendingSaveRef = NoEntry

\* C36: once the timer and the saves have completed, the local store holds
\* the latest edited version of every entry, which is the version the
\* entries list shows.
C36_EditsReachStore ==
    SavesSettled => \A k \in 1..Len(entries) : entries[k] \in store

(***************************************************************************)
(* Claims about a pass and the changes made while it ran                   *)
(***************************************************************************)
\* C37: the list a pass publishes holds, for every entry, the version the
\* list held when the pass returned or a version the remote store returned:
\* it neither reverts an edit made while the fetch was in flight nor brings
\* back an entry deleted meanwhile.
C37_PassKeepsConcurrentChanges ==
    [][Len(passes') < Len(passes)
          => \A k \in 1..Len(entries') :
                \/ \E j \in 1..Len(entries) : entries[j] = entries'[k]
                \/ \E j \in 1..Len(cloudEntries') : cloudEntries'[j] = entries'[k]]_vars

\* C40: while no performSave is between its first await and its finally block
\* the in-flight flag is false and the pending slot is empty, and a flag that
\* was set is cleared again, whether saveEntry was rejected or the upload ended
\* with return, with the auth error or with another error.
C40_FlagCleared ==
    /\ [](save.pc = "idle" => (~isSavingRef /\ pendingSaveRef = NoEntry))
    /\ (isSavingRef ~> ~isSavingRef)

\* A save whose upload threw the auth error has run its finally block: the user
\* is logged out, the flag is false and the slot is empty.
C40_Witness ==
    /\ thrown.run = "save" /\ thrown.kind = "auth"
    /\ save.pc = "idle" /\ ~isSavingRef /\ pendingSaveRef = NoEntry
    /\ lastSavedHash # <<>>

====
